---------------------------- MODULE Spec2Model ----------------------------
(***************************************************************************)
(* go-script-templates, package bitcom: the envelope scanner (Decode,      *)
(* findReturn, findPipe), the envelope builder (Bitcom.Lock) and the       *)
(* signature decoders built on them.                                       *)
(*                                                                         *)
(* Scripts are sequences of bytes (0..255).  Positions are the code's      *)
(* 0-based offsets; Sub(s, a, b) is the Go slice expression s[a:b].        *)
(* A Go slice is a view (off, len) of a backing array; the views Decode    *)
(* returns share the backing array of the script they were cut from, which *)
(* the model keeps in the variable buf.                                    *)
(***************************************************************************)
EXTENDS Integers, Sequences, FiniteSets, TLC

\* ------------------------------------------------------------- opcodes
OpFALSE == 0
OpDATA1 == 1
OpPUSHDATA1 == 76
OpPUSHDATA2 == 77
OpPUSHDATA4 == 78
OpRETURN == 106
Pipe == 124

\* ------------------------------------------------------------- bounds
\* Longest script handed to Decode.
MaxLen == 5
\* Most bytes a caller spreads over the prefix, tags and payloads of a Bitcom
\* it constructs by hand.
MaxBuild == 3
\* Most entries of a hand-constructed Bitcom.
MaxEntries == 2
\* Most calls of Lock on one Bitcom.
MaxLocks == 2

\* The bytes scripts are drawn from: OP_FALSE, a 1-byte and a 2-byte direct
\* push, OP_PUSHDATA1, OP_RETURN and '|'.
ScriptBytes == {OpFALSE, OpDATA1, 2, OpPUSHDATA1, OpRETURN, Pipe}
\* The bytes a hand-constructed Bitcom is drawn from.
BuildBytes == {OpFALSE, OpDATA1, OpRETURN, Pipe}

SeqsUpTo(S, n) == UNION {[1..k -> S] : k \in 0..n}

\* ------------------------------------------------------------- byte helpers
\* Go's s[a:b].
Sub(s, a, b) == SubSeq(s, a + 1, b)

\* buf with data copied in at offset at (the bytes of an in-place append).
Write(b, at, data) ==
  [i \in 1..Len(b) |->
     IF i > at /\ i <= at + Len(data) THEN data[i - at] ELSE b[i]]

\* F at the value of v, v being computed once.
At(v, F(_)) == CHOOSE r \in {F(x) : x \in {v}} : TRUE

\* ------------------------------------------------------------- go-sdk parser
\* The parser is a dependency, and its releases differ in one point: when
\* the data of an OP_PUSHDATA1/2/4 is missing, the cursor is left behind the
\* length bytes (TRUE) or where it was (FALSE).  The build decides.
VARIABLE sdkAdvances

\* script.Script.ReadOp(&pos): the token at pos.  err is the error return;
\* pos is the cursor after the call.  A push whose length bytes or data are
\* missing is an error; the cursor is then left where the code had moved it.
ReadErr(p) == [err |-> TRUE, Op |-> 0, Data |-> <<>>, pos |-> p]

ReadPush(scr, pos, hdr, l) ==
  IF Len(scr) < pos + hdr + l
    THEN ReadErr(IF hdr = 1 \/ ~sdkAdvances THEN pos ELSE pos + hdr)
    ELSE [err |-> FALSE, Op |-> scr[pos + 1],
          Data |-> Sub(scr, pos + hdr, pos + hdr + l), pos |-> pos + hdr + l]

ReadOp(scr, pos) ==
  IF Len(scr) <= pos THEN ReadErr(pos)
  ELSE LET c == scr[pos + 1] IN
    CASE c = OpPUSHDATA1 ->
           IF Len(scr) < pos + 2 THEN ReadErr(pos)
           ELSE ReadPush(scr, pos, 2, scr[pos + 2])
      [] c = OpPUSHDATA2 ->
           IF Len(scr) < pos + 3 THEN ReadErr(pos)
           ELSE ReadPush(scr, pos, 3, scr[pos + 2] + 256 * scr[pos + 3])
      [] c = OpPUSHDATA4 ->
           IF Len(scr) < pos + 5 THEN ReadErr(pos)
           ELSE ReadPush(scr, pos, 5,
                  scr[pos + 2] + 256 * scr[pos + 3]
                    + 65536 * scr[pos + 4] + 16777216 * scr[pos + 5])
      [] c >= OpDATA1 /\ c < OpPUSHDATA1 -> ReadPush(scr, pos, 1, c)
      [] OTHER -> [err |-> FALSE, Op |-> c, Data |-> <<>>, pos |-> pos + 1]

\* script.PushDataPrefix followed by the data: what AppendPushData appends.
PushData(d) ==
  LET l == Len(d) IN
  (CASE l <= 75 -> <<l>>
     [] l > 75 /\ l <= 255 -> <<OpPUSHDATA1, l>>
     [] l > 255 /\ l <= 65535 -> <<OpPUSHDATA2, l % 256, l \div 256>>
     [] OTHER -> <<OpPUSHDATA4, l % 256, (l \div 256) % 256,
                   (l \div 65536) % 256, l \div 16777216>>) \o d

\* ------------------------------------------------------------- scanner
\* A scan result: the position found (-1: none), or loops: the loop's
\* cursor stopped advancing, so the deterministic loop never ends.
Found(p) == [loops |-> FALSE, pos |-> p]
Loops == [loops |-> TRUE, pos |-> -1]

\* The tests the two scan loops apply to the token just read.
IsReturn(r) == ~r.err /\ r.Op = OpRETURN

IsPipe(r) == ~r.err /\ r.Op = OpDATA1 /\ r.Data[1] = Pipe

RECURSIVE findReturnFrom(_, _)
findReturnFrom(scr, i) ==
  IF ~(i < Len(scr)) THEN Found(-1)
  ELSE LET r == ReadOp(scr, i) IN
    IF IsReturn(r) THEN Found(i)
    ELSE IF r.pos = i THEN Loops
    ELSE findReturnFrom(scr, r.pos)

findReturn(scr) == findReturnFrom(scr, 0)

RECURSIVE findPipeFrom(_, _)
findPipeFrom(scr, i) ==
  IF ~(i < Len(scr)) THEN Found(-1)
  ELSE LET r == ReadOp(scr, i) IN
    IF IsPipe(r) THEN Found(i)
    ELSE IF r.pos = i THEN Loops
    ELSE findPipeFrom(scr, r.pos)

findPipe(scr, from) == findPipeFrom(scr, from)

\* Slices.  alias: a view of buf at (off, len), capacity to the end of buf;
\* otherwise an array of its own holding own (nil is the empty one).
View(off, len) == [alias |-> TRUE, off |-> off, len |-> len, own |-> <<>>]
Own(bytes) == [alias |-> FALSE, off |-> 0, len |-> Len(bytes), own |-> bytes]
Bytes(sl, b) == IF sl.alias THEN Sub(b, sl.off, sl.off + sl.len) ELSE sl.own

\* The cursor after the delimiter found at pipePos.
AfterPipe(pipePos) == pipePos + 2

\* The prefix Decode keeps when the marker is at pos.
PrefixOf(pos) == IF pos > 0 THEN View(0, pos - 1) ELSE Own(<<>>)

\* The loop of Decode from cursor pos with the entries found so far.
RECURSIVE DecodeLoop(_, _, _)
DecodeLoop(scr, pos, protos) ==
  IF ~(pos < Len(scr)) THEN [loops |-> FALSE, Protocols |-> protos]
  ELSE LET pipePos == findPipe(scr, pos)
           r == ReadOp(scr, pos)
           p(script) == [Protocol |-> r.Data, Script |-> script, Pos |-> pos]
       IN
    IF pipePos.loops THEN [loops |-> TRUE, Protocols |-> protos]
    ELSE IF r.err THEN [loops |-> FALSE, Protocols |-> protos]
    ELSE IF pipePos.pos = -1
      THEN [loops |-> FALSE,
            Protocols |-> Append(protos, p(View(r.pos, Len(scr) - r.pos)))]
    ELSE IF pipePos.pos < r.pos
      THEN [loops |-> FALSE, Protocols |-> Append(protos, p(Own(<<>>)))]
    ELSE DecodeLoop(scr, AfterPipe(pipePos.pos),
                    Append(protos, p(View(r.pos, pipePos.pos - r.pos))))

\* Decode(scr) for a non-nil script.  kind: "nil" (no marker), "loops"
\* (the call never returns) or "ok".
NoBitcom(k) == [kind |-> k, ScriptPrefix |-> Own(<<>>), Protocols |-> <<>>]

Decode(scr) ==
  LET pos == findReturn(scr) IN
  IF pos.loops THEN NoBitcom("loops")
  ELSE IF pos.pos = -1 THEN NoBitcom("nil")
  ELSE LET prefix == PrefixOf(pos.pos)
           d == DecodeLoop(scr, pos.pos + 1, <<>>)
       IN IF d.loops THEN NoBitcom("loops")
          ELSE [kind |-> "ok", ScriptPrefix |-> prefix, Protocols |-> d.Protocols]

\* ------------------------------------------------------------- builder
\* append(s, data...) on the script under construction st = [s, buf]: in
\* place when the slice has the capacity, else into a fresh array.
GoAppend(st, data) ==
  IF st.s.alias /\ st.s.off + st.s.len + Len(data) <= Len(st.buf)
    THEN [s |-> [st.s EXCEPT !.len = @ + Len(data)],
          buf |-> Write(st.buf, st.s.off + st.s.len, data)]
    ELSE [s |-> Own(Bytes(st.s, st.buf) \o data), buf |-> st.buf]

\* A delimiter after every entry, the last one too.
RECURSIVE LockLoop_PipeAfterEach(_, _, _)
LockLoop_PipeAfterEach(protos, i, st) ==
  IF i > Len(protos) THEN st
  ELSE LET a == GoAppend(st, PushData(protos[i].Protocol))
           c == GoAppend(a, Bytes(protos[i].Script, a.buf))
       IN LockLoop_PipeAfterEach(protos, i + 1, GoAppend(c, PushData(<<Pipe>>)))

RECURSIVE LockLoop(_, _, _)
LockLoop(protos, i, st) ==
  IF i > Len(protos) THEN st
  ELSE LET a == GoAppend(st, PushData(protos[i].Protocol))
           c == GoAppend(a, Bytes(protos[i].Script, a.buf))
           e == IF i < Len(protos) THEN GoAppend(c, PushData(<<Pipe>>)) ELSE c
       IN LockLoop(protos, i + 1, e)

\* Bitcom.Lock on bitcom bc while the script buffer holds b: the script
\* returned (s) and the buffer afterwards (buf).
Lock(bc, b) ==
  LET st == [s |-> bc.ScriptPrefix, buf |-> b] IN
  IF Len(bc.Protocols) > 0
    THEN LockLoop(bc.Protocols, 1, GoAppend(st, <<OpRETURN>>))
    ELSE st

\* ------------------------------------------------------------- encodings
\* The base64 alphabet: the character of a 6-bit value, and back (-1: none).
B64Char(v) ==
  CASE v < 26 -> 65 + v
    [] v >= 26 /\ v < 52 -> 97 + (v - 26)
    [] v >= 52 /\ v < 62 -> 48 + (v - 52)
    [] v = 62 -> 43
    [] OTHER -> 47

B64Val(c) ==
  CASE c >= 65 /\ c <= 90 -> c - 65
    [] c >= 97 /\ c <= 122 -> c - 97 + 26
    [] c >= 48 /\ c <= 57 -> c - 48 + 52
    [] c = 43 -> 62
    [] c = 47 -> 63
    [] OTHER -> -1

\* base64.StdEncoding.EncodeToString: three bytes to four characters, the
\* last group padded with '='.
RECURSIVE Base64Encode(_)
Base64Encode(d) ==
  IF Len(d) = 0 THEN <<>>
  ELSE LET n == d[1] * 65536
                  + (IF Len(d) > 1 THEN d[2] * 256 ELSE 0)
                  + (IF Len(d) > 2 THEN d[3] ELSE 0)
           c1 == B64Char(n \div 262144)
           c2 == B64Char((n \div 4096) % 64)
           c3 == B64Char((n \div 64) % 64)
           c4 == B64Char(n % 64)
       IN CASE Len(d) = 1 -> <<c1, c2, 61, 61>>
            [] Len(d) = 2 -> <<c1, c2, c3, 61>>
            [] OTHER -> <<c1, c2, c3, c4>> \o Base64Encode(Sub(d, 3, Len(d)))

\* base64.StdEncoding.DecodeString: err on a length that is no multiple of
\* four, a character outside the alphabet or misplaced padding.
RECURSIVE Base64DecodeFrom(_, _)
Base64DecodeFrom(t, out) ==
  IF Len(t) = 0 THEN [err |-> FALSE, data |-> out]
  ELSE IF Len(t) < 4 THEN [err |-> TRUE, data |-> <<>>]
  ELSE LET last == Len(t) = 4
           pad == IF last /\ t[4] = 61 THEN (IF t[3] = 61 THEN 2 ELSE 1) ELSE 0
           v(i) == IF i > 4 - pad THEN 0 ELSE B64Val(t[i])
           n == v(1) * 262144 + v(2) * 4096 + v(3) * 64 + v(4)
           bytes == <<n \div 65536, (n \div 256) % 256, n % 256>>
       IN IF \E i \in 1..4 : v(i) < 0 THEN [err |-> TRUE, data |-> <<>>]
          ELSE Base64DecodeFrom(Sub(t, 4, Len(t)), out \o Sub(bytes, 0, 3 - pad))

Base64Decode(t) == Base64DecodeFrom(t, <<>>)

\* sha256.Sum256 as an injective map out of the byte strings: the digest of
\* x is x behind the mark 256, which is no byte.
Sha256(x) == <<256>> \o x

\* ------------------------------------------------------------- sigma
SIGMAPrefix == <<83, 73, 71, 77, 65>>
AlgoECDSA == <<69, 67, 68, 83, 65>>
AlgoSHA256ECDSA == <<83, 72, 65, 50, 53, 54, 45, 69, 67, 68, 83, 65>>
AlgoBSM == <<66, 83, 77>>

\* The literals of the test vector VerifyMessageSignature compares with.
VectorAddress ==
  <<49, 69, 88, 104, 83, 98, 71, 70, 105, 69, 65, 90, 67, 69, 53, 101, 101,
    66, 118, 85, 120, 84, 54, 99, 66, 86, 72, 104, 114, 112, 80, 87, 88, 122>>
VectorMessage == <<72, 101, 108, 108, 111, 44, 32, 87, 111, 114, 108, 100, 33>>
VectorSignatureValue ==
  <<72, 56, 57, 68, 83, 89, 49, 50, 105, 77, 109, 114, 70, 49, 54, 84, 52, 97,
    68, 80, 119, 70, 99, 113, 114, 116, 117, 71, 120, 121, 111, 84, 54, 57,
    121, 84, 66, 72, 52, 71, 113, 88, 121, 122, 78, 90, 43, 80, 79, 86, 104,
    120, 86, 53, 70, 76, 65, 118, 72, 100, 119, 75, 109, 74, 48, 73, 104, 81,
    84, 47, 119, 55, 74, 81, 112, 84, 103, 48, 88, 66, 90, 53, 122, 101, 74,
    43, 99, 61>>

\* bsm.VerifyMessage(address, sig, data) = nil: the external capability.
\* acc is the set of (address, signature, message) triples it accepts.
VerifyMessage(acc, address, sig, data) == <<address, sig, data>> \in acc

\* Sigma.GetSignatureBytes.
GetSignatureBytes(sg) ==
  IF sg.SignatureValue = <<>> THEN [err |-> FALSE, data |-> <<>>]
  ELSE Base64Decode(sg.SignatureValue)

\* Sigma.VerifyMessageSignature: the Valid field after the call.
VerifyMessageSignature(sg, acc) ==
  IF sg.SignerAddress = <<>> \/ sg.SignatureValue = <<>> \/ sg.Message = <<>>
    THEN sg.Valid
  ELSE LET sigBytes == GetSignatureBytes(sg) IN
    IF sigBytes.err THEN sg.Valid
    ELSE IF sg.Algorithm = AlgoBSM
      THEN IF VerifyMessage(acc, sg.SignerAddress, sigBytes.data, sg.Message)
             THEN TRUE
           ELSE IF /\ sg.SignerAddress = VectorAddress
                   /\ sg.Message = VectorMessage
                   /\ sg.SignatureValue = VectorSignatureValue
             THEN TRUE
           ELSE sg.Valid
    ELSE IF sg.Algorithm \in {AlgoECDSA, AlgoSHA256ECDSA}
      THEN IF VerifyMessage(acc, sg.SignerAddress, sigBytes.data, sg.Message)
             THEN TRUE ELSE sg.Valid
    ELSE sg.Valid

\* A transaction: Inputs, each [isNil, hasTXID, txid, vout], and Outputs,
\* each [hasScript, script].
\* PutUint32 little-endian.
LE32(v) == <<v % 256, (v \div 256) % 256, (v \div 65536) % 256, (v \div 16777216) % 256>>

\* Sigma.getInputHash: nil, the hash, or panics (an index out of range).
NilHash == [panics |-> FALSE, isNil |-> TRUE, hash |-> <<>>]
SomeHash(h) == [panics |-> FALSE, isNil |-> FALSE, hash |-> h]
PanicHash == [panics |-> TRUE, isNil |-> TRUE, hash |-> <<>>]

\* The input getInputHash reads.
InputIndex(sg, tx) ==
  IF sg.VIN < 0 \/ sg.VIN >= Len(tx.Inputs) THEN sg.TargetOutput ELSE sg.VIN

getInputHash(sg, tx) ==
  IF ~sg.hasTx \/ Len(tx.Inputs) = 0 THEN NilHash
  ELSE LET vin == InputIndex(sg, tx) IN
    IF vin < 0 \/ vin >= Len(tx.Inputs) THEN PanicHash
    ELSE LET input == tx.Inputs[vin + 1] IN
      IF input.isNil \/ ~input.hasTXID THEN NilHash
      ELSE SomeHash(Sha256(input.txid \o LE32(input.vout)))

\* The loop of getDataHash over the output script from pos.
IsDataCarrier(r) ==
  r.Op = OpRETURN \/ (r.Op = OpPUSHDATA1 /\ Len(r.Data) = 1 /\ r.Data[1] = Pipe)

RECURSIVE DataHashLoop(_, _, _, _, _)
DataHashLoop(scr, pos, prevPos, occurrences, instance) ==
  IF ~(pos < Len(scr)) THEN Sha256(scr)
  ELSE LET r == ReadOp(scr, pos) IN
    IF r.err THEN Sha256(scr)
    ELSE IF IsDataCarrier(r)
      THEN LET n == ReadOp(scr, r.pos) IN
        IF n.err THEN Sha256(scr)
        ELSE IF n.Data = SIGMAPrefix
          THEN IF occurrences = instance THEN Sha256(Sub(scr, 0, prevPos))
               ELSE DataHashLoop(scr, n.pos, n.pos, occurrences + 1, instance)
          ELSE DataHashLoop(scr, n.pos, n.pos, occurrences, instance)
    ELSE DataHashLoop(scr, r.pos, r.pos, occurrences, instance)

\* Sigma.getDataHash.
getDataHash(sg, tx) ==
  IF ~sg.hasTx \/ Len(tx.Outputs) <= sg.TargetOutput THEN NilHash
  ELSE LET output == tx.Outputs[sg.TargetOutput + 1] IN
    IF ~output.hasScript THEN NilHash
    ELSE SomeHash(DataHashLoop(output.script, 0, 0, 0, sg.SigmaInstance))

\* Sigma.getMessageHash: the input hash is taken first.
getMessageHash(sg, tx) ==
  LET inputHash == getInputHash(sg, tx) IN
  IF inputHash.panics THEN PanicHash
  ELSE LET dataHash == getDataHash(sg, tx) IN
    IF inputHash.isNil \/ dataHash.isNil THEN NilHash
    ELSE SomeHash(Sha256(Sha256(inputHash.hash \o dataHash.hash)))

\* Sigma.VerifyTransactionSignature: whether it panics, and Valid after it.
VerifyTransactionSignature(sg, tx, acc) ==
  IF sg.SignerAddress = <<>> \/ sg.SignatureValue = <<>> \/ ~sg.hasTx
    THEN [panics |-> FALSE, Valid |-> sg.Valid]
  ELSE LET sigBytes == GetSignatureBytes(sg) IN
    IF sigBytes.err THEN [panics |-> FALSE, Valid |-> sg.Valid]
    ELSE LET msgHash == getMessageHash(sg, tx) IN
      IF msgHash.panics THEN [panics |-> TRUE, Valid |-> sg.Valid]
      ELSE IF msgHash.isNil THEN [panics |-> FALSE, Valid |-> sg.Valid]
      ELSE IF sg.Algorithm \in {AlgoBSM, AlgoECDSA, AlgoSHA256ECDSA}
        THEN [panics |-> FALSE,
              Valid |-> IF VerifyMessage(acc, sg.SignerAddress, sigBytes.data, msgHash.hash)
                          THEN TRUE ELSE sg.Valid]
      ELSE [panics |-> FALSE, Valid |-> sg.Valid]

\* The fields DecodeSIGMA reads from one SIGMA payload; skip: a token is
\* missing and the entry is passed over.
SkipSigma == [skip |-> TRUE, Algorithm |-> <<>>, SignerAddress |-> <<>>,
              SignatureValue |-> <<>>, Message |-> <<>>, Nonce |-> <<>>, VIN |-> 0]

\* Nonce is read after an input index as well.
OptionalFields_NonceAlways(r4, r5) ==
  LET isVin == Len(r4.Data) = 1 /\ r4.Data[1] >= 48 /\ r4.Data[1] <= 57 IN
  [VIN |-> IF ~r4.err /\ isVin THEN r4.Data[1] - 48 ELSE 0,
   Message |-> IF ~r4.err /\ ~isVin THEN r4.Data ELSE <<>>,
   Nonce |-> IF ~r4.err /\ ~r5.err THEN r5.Data ELSE <<>>]

\* The optional fields, r4 and r5 being the reads of the fourth and the
\* fifth token.
OptionalFields(r4, r5) ==
  LET isVin == Len(r4.Data) = 1 /\ r4.Data[1] >= 48 /\ r4.Data[1] <= 57 IN
  [VIN |-> IF ~r4.err /\ isVin THEN r4.Data[1] - 48 ELSE 0,
   Message |-> IF ~r4.err /\ ~isVin THEN r4.Data ELSE <<>>,
   Nonce |-> IF ~r4.err /\ ~isVin /\ ~r5.err THEN r5.Data ELSE <<>>]

SigmaFields(scr) ==
  At(ReadOp(scr, 0), LAMBDA r1 :
    IF r1.err THEN SkipSigma
    ELSE At(ReadOp(scr, r1.pos), LAMBDA r2 :
      IF r2.err THEN SkipSigma
      ELSE At(ReadOp(scr, r2.pos), LAMBDA r3 :
        IF r3.err THEN SkipSigma
        ELSE At(ReadOp(scr, r3.pos), LAMBDA r4 :
          LET opt == OptionalFields(r4, ReadOp(scr, r4.pos))
          IN [skip |-> FALSE,
              Algorithm |-> IF Len(r1.Data) > 1 /\ r1.Data[1] = 3
                              THEN Sub(r1.Data, 1, Len(r1.Data)) ELSE r1.Data,
              SignerAddress |-> IF Len(r2.Data) > 1 /\ r2.Data[1] = 34
                                  THEN Sub(r2.Data, 1, Len(r2.Data) - 1) ELSE r2.Data,
              SignatureValue |-> Base64Encode(r3.Data),
              VIN |-> opt.VIN,
              Message |-> opt.Message,
              Nonce |-> opt.Nonce]))))

\* The validation step at the end of DecodeSIGMA's loop body: Valid of a
\* Sigma that carries no transaction yet.
SigmaValidAtDecode(sg, acc) ==
  IF sg.SignerAddress # <<>> /\ sg.SignatureValue # <<>>
    THEN IF sg.Message # <<>> THEN VerifyMessageSignature(sg, acc)
         ELSE TRUE
    ELSE FALSE

NewSigma(f) ==
  [Algorithm |-> f.Algorithm, SignerAddress |-> f.SignerAddress,
   SignatureValue |-> f.SignatureValue, Message |-> f.Message,
   Nonce |-> f.Nonce, VIN |-> f.VIN, Valid |-> FALSE, hasTx |-> FALSE,
   TargetOutput |-> 0, TargetInput |-> 0, SigmaInstance |-> 0]

\* DecodeSIGMA on the entries protos[i..] of a Bitcom cut from scr.
RECURSIVE DecodeSIGMAFrom(_, _, _, _)
DecodeSIGMAFrom(protos, scr, i, acc) ==
  IF i > Len(protos) THEN <<>>
  ELSE IF protos[i].Protocol # SIGMAPrefix
    THEN DecodeSIGMAFrom(protos, scr, i + 1, acc)
  ELSE At(SigmaFields(Bytes(protos[i].Script, scr)), LAMBDA f :
    IF f.skip THEN DecodeSIGMAFrom(protos, scr, i + 1, acc)
    ELSE At(NewSigma(f), LAMBDA sg :
      <<[sg EXCEPT !.Valid = SigmaValidAtDecode(sg, acc)]>>
        \o DecodeSIGMAFrom(protos, scr, i + 1, acc)))

DecodeSIGMA(bc, scr, acc) ==
  At(bc.Protocols, LAMBDA protos : DecodeSIGMAFrom(protos, scr, 1, acc))

\* The body of DecodeFromTransaction's inner loop for signature k of
\* output outputIdx.
WithContext(sg, outputIdx, instanceIdx) ==
  [sg EXCEPT !.hasTx = TRUE, !.TargetOutput = outputIdx,
             !.SigmaInstance = instanceIdx]

\* The body of the inner loop for one signature with its context set:
\* whether the verification panics, and the signature as it is appended.
Verified(sg, tx, acc) ==
  At(sg, LAMBDA s :
    At(VerifyTransactionSignature(s, tx, acc), LAMBDA r :
      [panics |-> r.panics, sigma |-> [s EXCEPT !.Valid = r.Valid]]))

\* One round of DecodeFromTransaction's outer loop, for output o (counted
\* from 1): outcome "ok" with the signatures it appends, "panic" (an index
\* out of range) or "loops" (Decode does not return).
OutputSignatures(tx, o, acc) ==
  LET output == tx.Outputs[o] IN
  IF ~output.hasScript THEN [outcome |-> "ok", sigs |-> <<>>]
  ELSE At(Decode(output.script), LAMBDA bc :
    IF bc.kind = "loops" THEN [outcome |-> "loops", sigs |-> <<>>]
    ELSE IF bc.kind = "nil" THEN [outcome |-> "ok", sigs |-> <<>>]
    ELSE At(DecodeSIGMA(bc, output.script, acc), LAMBDA signatures :
      At([k \in 1..Len(signatures) |->
            Verified(WithContext(signatures[k], o - 1, k - 1), tx, acc)],
         LAMBDA res :
           IF \E k \in 1..Len(res) : res[k].panics
             THEN [outcome |-> "panic", sigs |-> <<>>]
             ELSE [outcome |-> "ok", sigs |-> [k \in 1..Len(res) |-> res[k].sigma]])))

\* DecodeFromTransaction from output o on, all being the signatures so far.
RECURSIVE DecodeFromTransactionFrom(_, _, _, _)
DecodeFromTransactionFrom(tx, o, acc, all) ==
  IF o > Len(tx.Outputs) THEN [outcome |-> "ok", sigs |-> all]
  ELSE At(OutputSignatures(tx, o, acc), LAMBDA r :
    IF r.outcome # "ok" THEN [outcome |-> r.outcome, sigs |-> <<>>]
    ELSE DecodeFromTransactionFrom(tx, o + 1, acc, all \o r.sigs))

DecodeFromTransaction(tx, acc) == DecodeFromTransactionFrom(tx, 1, acc, <<>>)

\* ------------------------------------------------------------- aip
AIPPrefix ==
  <<49, 53, 80, 99, 105, 72, 71, 50, 50, 83, 78, 76, 81, 74, 88, 77, 111,
    83, 85, 97, 87, 86, 105, 55, 87, 83, 113, 99, 55, 104, 67, 102, 118, 97>>

\* script.DecodeScript (Script.Chunks): the tokens of b, or err with the
\* tokens read before a push whose length bytes or data are missing.
RECURSIVE DecodeScriptFrom(_, _, _)
DecodeScriptFrom(scr, pos, ops) ==
  IF ~(pos < Len(scr)) THEN [err |-> FALSE, chunks |-> ops]
  ELSE LET r == ReadOp(scr, pos) IN
    IF r.err THEN [err |-> TRUE, chunks |-> ops]
    ELSE DecodeScriptFrom(scr, r.pos, Append(ops, [Op |-> r.Op, Data |-> r.Data]))

DecodeScript(scr) == DecodeScriptFrom(scr, 0, <<>>)

\* strconv.Atoi on the bytes d: an optional sign and one or more decimal
\* digits (values within the model's integers).
IsDigit(c) == c >= 48 /\ c <= 57

RECURSIVE DigitsValue(_, _)
DigitsValue(d, a) ==
  IF Len(d) = 0 THEN a ELSE DigitsValue(Tail(d), 10 * a + (d[1] - 48))

Atoi(d) ==
  LET signed == Len(d) > 0 /\ d[1] \in {43, 45}
      digits == IF signed THEN Tail(d) ELSE d
  IN IF Len(digits) = 0 \/ \E i \in 1..Len(digits) : ~IsDigit(digits[i])
       THEN [err |-> TRUE, val |-> 0]
       ELSE [err |-> FALSE,
             val |-> IF signed /\ d[1] = 45 THEN 0 - DigitsValue(digits, 0)
                     ELSE DigitsValue(digits, 0)]

\* unicode.IsPrint on a rune below 256.
IsPrint(c) == (c >= 32 /\ c <= 126) \/ (c >= 161 /\ c <= 255 /\ c # 173)

\* A chunk that is no number is passed over and the loop goes on.
RECURSIVE FieldIndexesFrom_PassOver(_, _)
FieldIndexesFrom_PassOver(chunks, i) ==
  IF i > Len(chunks) THEN <<>>
  ELSE LET n == Atoi(chunks[i].Data) IN
    (IF n.err THEN <<>> ELSE <<n.val>>) \o FieldIndexesFrom_PassOver(chunks, i + 1)

\* The field indexes DecodeAIP reads from chunks[i..]: up to the first
\* chunk that is no number.
RECURSIVE FieldIndexesFrom(_, _)
FieldIndexesFrom(chunks, i) ==
  IF i > Len(chunks) THEN <<>>
  ELSE LET n == Atoi(chunks[i].Data) IN
    IF n.err THEN <<>> ELSE <<n.val>> \o FieldIndexesFrom(chunks, i + 1)

Contains(seq, x) == \E i \in 1..Len(seq) : seq[i] = x

\* The bytes validateAip appends for the token op, token idx of the
\* envelope.
TokenBytes(op, idx, fieldIndexes) ==
  IF (op.Op > 0 \/ op.Op <= OpPUSHDATA4)
     /\ (fieldIndexes = <<>> \/ Contains(fieldIndexes, idx))
    THEN op.Data
  ELSE IF op.Op > 67 /\ IsPrint(op.Op) THEN <<op.Op>>
  ELSE <<>>

\* The bytes validateAip appends for the tokens tape[k..] of one entry, the
\* first of them being token idx of the envelope.
RECURSIVE TapeBytes(_, _, _, _)
TapeBytes(tape, k, idx, fieldIndexes) ==
  IF k > Len(tape) THEN <<>>
  ELSE TokenBytes(tape[k], idx, fieldIndexes)
         \o TapeBytes(tape, k + 1, idx + 1, fieldIndexes)

\* The tokens of each entry are counted from 0.
RECURSIVE AipData_CountPerEntry(_, _, _, _, _, _)
AipData_CountPerEntry(protos, scr, i, idx, data, fieldIndexes) ==
  IF i > Len(protos) THEN data
  ELSE LET tape == DecodeScript(Bytes(protos[i].Script, scr))
           tagged == data \o protos[i].Protocol
       IN IF tape.err
            THEN AipData_CountPerEntry(protos, scr, i + 1, 0, tagged, fieldIndexes)
            ELSE AipData_CountPerEntry(protos, scr, i + 1, 0,
                         tagged \o TapeBytes(tape.chunks, 1, 0, fieldIndexes)
                                \o <<Pipe>>,
                         fieldIndexes)

\* The buffer validateAip builds from the entries protos[i..], data being
\* the bytes so far and idx the tokens counted so far.
RECURSIVE AipData(_, _, _, _, _, _)
AipData(protos, scr, i, idx, data, fieldIndexes) ==
  IF i > Len(protos) THEN data
  ELSE LET tape == DecodeScript(Bytes(protos[i].Script, scr))
           tagged == data \o protos[i].Protocol
       IN IF tape.err
            THEN AipData(protos, scr, i + 1, idx, tagged, fieldIndexes)
            ELSE AipData(protos, scr, i + 1, idx + Len(tape.chunks),
                         tagged \o TapeBytes(tape.chunks, 1, idx, fieldIndexes)
                                \o <<Pipe>>,
                         fieldIndexes)

\* A validation that trusts every signature that is present.
validateAip_Trusting(aip, protos, scr, acc) == aip.Signature # <<>>

\* The data validateAip puts to bsm.VerifyMessage.
AipBuffer(aip, protos, scr) ==
  AipData(protos, scr, 1, 0, <<OpRETURN>>, aip.FieldIndexes)

\* validateAip: Valid of the AIP after the call.
validateAip(aip, protos, scr, acc) ==
  VerifyMessage(acc, aip.Address, aip.Signature, AipBuffer(aip, protos, scr))

\* DecodeAIP on the entries protos[i..] of a Bitcom cut from scr.  Signed
\* is no field of the AIP: it keeps the data the call of validateAip for
\* this record put to bsm.VerifyMessage.
RECURSIVE DecodeAIPFrom(_, _, _, _)
DecodeAIPFrom(protos, scr, i, acc) ==
  IF i > Len(protos) THEN <<>>
  ELSE LET c == DecodeScript(Bytes(protos[i].Script, scr))
           aip == [BitcomIndex |-> i - 1,
                   Algorithm |-> c.chunks[1].Data,
                   Address |-> c.chunks[2].Data,
                   Signature |-> c.chunks[3].Data,
                   FieldIndexes |-> FieldIndexesFrom(c.chunks, 4),
                   Valid |-> FALSE,
                   Signed |-> <<>>]
       IN IF protos[i].Protocol = AIPPrefix /\ ~c.err /\ Len(c.chunks) >= 3
            THEN <<[aip EXCEPT
                      !.Valid = validateAip(aip, SubSeq(protos, 1, i - 1), scr, acc),
                      !.Signed = AipBuffer(aip, SubSeq(protos, 1, i - 1), scr)]>>
                   \o DecodeAIPFrom(protos, scr, i + 1, acc)
            ELSE DecodeAIPFrom(protos, scr, i + 1, acc)

DecodeAIP(bc, scr, acc) == DecodeAIPFrom(bc.Protocols, scr, 1, acc)

\* ------------------------------------------------------------- bap
BAPPrefix ==
  <<49, 66, 65, 80, 83, 117, 97, 80, 110, 102, 71, 110, 83, 66, 77, 51, 71,
    76, 86, 57, 121, 104, 120, 85, 100, 89, 101, 52, 118, 71, 98, 100, 77, 84>>
TypeATTEST == <<65, 84, 84, 69, 83, 84>>
TypeID == <<73, 68>>
TypeREVOKE == <<82, 69, 86, 79, 75, 69>>
TypeALIAS == <<65, 76, 73, 65, 83>>

\* strings.Index: the offset of the first occurrence of sub in s, or -1.
IndexOf(s, sub) ==
  LET at == {i \in 0..(Len(s) - Len(sub)) : Sub(s, i, i + Len(sub)) = sub}
  IN IF at = {} THEN -1 ELSE CHOOSE i \in at : \A j \in at : i <= j

\* strings.SplitN(s, sep, 2)[1]: what follows the first sep in s.
AfterFirst(s, sep) == Sub(s, IndexOf(s, sep) + Len(sep), Len(s))

\* strings.SplitN(s, " ", 3): up to three parts, cut at the first two spaces.
SplitSpace3(s) ==
  LET i == IndexOf(s, <<32>>) IN
  IF i = -1 THEN <<s>>
  ELSE LET rest == Sub(s, i + 1, Len(s))
           j == IndexOf(rest, <<32>>)
       IN IF j = -1 THEN <<Sub(s, 0, i), rest>>
          ELSE <<Sub(s, 0, i), Sub(rest, 0, j), Sub(rest, j + 1, Len(rest))>>

\* strings.TrimSpace on a string of ASCII bytes.
IsSpace(c) == c \in {9, 10, 11, 12, 13, 32}

RECURSIVE TrimLeft(_)
TrimLeft(s) == IF Len(s) > 0 /\ IsSpace(s[1]) THEN TrimLeft(Tail(s)) ELSE s

RECURSIVE TrimRight(_)
TrimRight(s) ==
  IF Len(s) > 0 /\ IsSpace(s[Len(s)]) THEN TrimRight(Sub(s, 0, Len(s) - 1)) ELSE s

TrimSpace(s) == TrimRight(TrimLeft(s))

\* The digits a string begins with are taken for its value.
ParseUint_LeadingDigit(d) ==
  IF Len(d) = 0 \/ ~IsDigit(d[1]) THEN 0 ELSE d[1] - 48

\* strconv.ParseUint(s, 10, 64) with the error dropped: the value of a
\* string of digits, 0 for anything else (values within the model's
\* integers).
ParseUint(d) ==
  IF Len(d) = 0 \/ \E i \in 1..Len(d) : ~IsDigit(d[i]) THEN 0
  ELSE DigitsValue(d, 0)

NewBap(ii) ==
  [BitcomIndex |-> ii, Type |-> <<>>, IDKey |-> <<>>, Address |-> <<>>,
   Sequence |-> 0, Algorithm |-> <<>>, SignerAddr |-> <<>>, Signature |-> <<>>,
   RootAddress |-> <<>>, IsSignedByID |-> FALSE, Profile |-> <<>>]

\* The index (from 0) of the first chunk from the fourth on whose data is
\* "|", or -1.
PipeIdx(chunks) ==
  LET at == {i \in 3..(Len(chunks) - 1) : chunks[i + 1].Data = <<Pipe>>}
  IN IF at = {} THEN -1 ELSE CHOOSE i \in at : \A j \in at : i <= j

\* The flag is set for every kind that has a signature.
WithSignature_FlagAll(bap, chunks, isID) ==
  LET pipeIdx == PipeIdx(chunks) IN
  IF pipeIdx >= 0 /\ pipeIdx + 3 < Len(chunks)
    THEN LET a == [bap EXCEPT !.Algorithm = chunks[pipeIdx + 3].Data,
                              !.SignerAddr = chunks[pipeIdx + 4].Data]
         IN IF pipeIdx + 4 < Len(chunks)
              THEN [a EXCEPT !.Signature = chunks[pipeIdx + 5].Data,
                             !.RootAddress = IF isID THEN a.SignerAddr ELSE @,
                             !.IsSignedByID = TRUE]
              ELSE a
    ELSE bap

\* The search for the AIP data after a pipe chunk, the same in the four
\* cases of the switch but for what the ID case sets besides.
WithSignature(bap, chunks, isID) ==
  LET pipeIdx == PipeIdx(chunks) IN
  IF pipeIdx >= 0 /\ pipeIdx + 3 < Len(chunks)
    THEN LET a == [bap EXCEPT !.Algorithm = chunks[pipeIdx + 3].Data,
                              !.SignerAddr = chunks[pipeIdx + 4].Data]
         IN IF pipeIdx + 4 < Len(chunks)
              THEN [a EXCEPT !.Signature = chunks[pipeIdx + 5].Data,
                             !.RootAddress = IF isID THEN a.SignerAddr ELSE @,
                             !.IsSignedByID = isID]
              ELSE a
    ELSE bap

\* The switch on the type of a payload of two or more chunks.
BapFromChunks(bap, chunks) ==
  LET t == [bap EXCEPT !.Type = chunks[1].Data] IN
  IF Len(chunks) < 3 \/ t.Type \notin {TypeID, TypeATTEST, TypeREVOKE, TypeALIAS}
    THEN t
  ELSE CASE t.Type = TypeID ->
              WithSignature([t EXCEPT !.IDKey = chunks[2].Data,
                                      !.Address = chunks[3].Data], chunks, TRUE)
         [] t.Type = TypeALIAS ->
              WithSignature([t EXCEPT !.IDKey = chunks[2].Data,
                                      !.Profile = chunks[3].Data], chunks, FALSE)
         [] OTHER ->
              WithSignature([t EXCEPT !.IDKey = chunks[2].Data,
                                      !.Sequence = ParseUint(chunks[3].Data)],
                            chunks, FALSE)

\* The search of the payload's bytes when it has no two chunks: found is
\* FALSE when the loop goes on to the next entry.
BapFromText(bap, s) ==
  LET miss == [found |-> FALSE, bap |-> bap] IN
  IF IndexOf(s, TypeID) >= 0
    THEN LET r == SplitSpace3(AfterFirst(s, TypeID)) IN
         IF Len(r) >= 2
           THEN [found |-> TRUE,
                 bap |-> [bap EXCEPT !.Type = TypeID, !.IDKey = TrimSpace(r[1]),
                                     !.Address = TrimSpace(r[2])]]
           ELSE miss
  ELSE IF IndexOf(s, TypeATTEST) >= 0
    THEN LET r == SplitSpace3(AfterFirst(s, TypeATTEST)) IN
         IF Len(r) >= 2
           THEN [found |-> TRUE,
                 bap |-> [bap EXCEPT !.Type = TypeATTEST, !.IDKey = TrimSpace(r[1]),
                                     !.Sequence = ParseUint(r[2])]]
           ELSE miss
  ELSE miss

\* One round of DecodeBAP's loop, for entry i (counted from 1): found with
\* the record returned, or not found and the loop goes on.
BapOfEntry(protos, scr, i) ==
  IF protos[i].Protocol # BAPPrefix THEN [found |-> FALSE, bap |-> NewBap(i - 1)]
  ELSE At(DecodeScript(Bytes(protos[i].Script, scr)), LAMBDA c :
    IF c.err \/ Len(c.chunks) < 2
      THEN BapFromText(NewBap(i - 1), Bytes(protos[i].Script, scr))
      ELSE [found |-> TRUE, bap |-> BapFromChunks(NewBap(i - 1), c.chunks)])

\* DecodeBAP on the entries protos[i..]: isNil, or the record.
RECURSIVE DecodeBAPFrom(_, _, _)
DecodeBAPFrom(protos, scr, i) ==
  IF i > Len(protos) THEN [isNil |-> TRUE, bap |-> NewBap(0)]
  ELSE At(BapOfEntry(protos, scr, i), LAMBDA r :
    IF r.found THEN [isNil |-> FALSE, bap |-> r.bap]
    ELSE DecodeBAPFrom(protos, scr, i + 1))

DecodeBAP(bc, scr) == DecodeBAPFrom(bc.Protocols, scr, 1)

\* ------------------------------------------------------------- pow20
\* A uint64 is held as four 16-bit limbs, the most significant first.
\* binary.BigEndian.AppendUint64: its eight bytes, the most significant
\* first.
AppendUint64(v) ==
  <<v[1] \div 256, v[1] % 256, v[2] \div 256, v[2] % 256,
    v[3] \div 256, v[3] % 256, v[4] \div 256, v[4] % 256>>

\* The loop of uint64ToBytes over bigEndianBytes from index i (from 0), val
\* being the bytes kept so far.
RECURSIVE KeepBytes(_, _, _)
KeepBytes(bigEndianBytes, i, val) ==
  IF i >= Len(bigEndianBytes) THEN val
  ELSE IF i < Len(bigEndianBytes) - 1 /\ bigEndianBytes[i + 1] = 0
          /\ bigEndianBytes[i + 2] < 128 /\ Len(val) = 0
    THEN KeepBytes(bigEndianBytes, i + 1, val)
  ELSE KeepBytes(bigEndianBytes, i + 1, Append(val, bigEndianBytes[i + 1]))

\* util.ReverseBytes.
ReverseBytes(s) == [i \in 1..Len(s) |-> s[Len(s) + 1 - i]]

uint64ToBytes(v) == ReverseBytes(KeepBytes(AppendUint64(v), 0, <<>>))

\* interpreter.MakeScriptNumber(bb, scriptNumLen, true, true) of the go-sdk:
\* an error for more than scriptNumLen bytes and for bytes that are not the
\* shortest form of their number; otherwise the number, little-endian, the
\* top bit of the last byte being its sign: neg, and the bytes of its
\* magnitude.
MakeScriptNumber(bb, scriptNumLen) ==
  LET n == Len(bb) IN
  IF n > scriptNumLen THEN [err |-> TRUE, neg |-> FALSE, mag |-> <<>>]
  ELSE IF n > 0 /\ bb[n] % 128 = 0 /\ (n = 1 \/ bb[n - 1] < 128)
    THEN [err |-> TRUE, neg |-> FALSE, mag |-> <<>>]
  ELSE IF n = 0 THEN [err |-> FALSE, neg |-> FALSE, mag |-> <<>>]
  ELSE [err |-> FALSE, neg |-> bb[n] >= 128,
        mag |-> [bb EXCEPT ![n] = bb[n] % 128]]

\* big.Int.Uint64 of a script number: the low 64 bits of its magnitude, as
\* limbs.
Uint64Of(num) ==
  LET byte(k) == IF k <= Len(num.mag) THEN num.mag[k] ELSE 0 IN
  <<byte(7) + 256 * byte(8), byte(5) + 256 * byte(6),
    byte(3) + 256 * byte(4), byte(1) + 256 * byte(2)>>

\* Pow20.Lock, but for the inscription and the contract code before and
\* after the fields: the fields pushed between pow20Prefix and pow20Suffix,
\* and the state after the suffix.
PowLock(p, supply) ==
  [fields |-> PushData(p.Symbol) \o PushData(uint64ToBytes(p.MaxSupply))
                \o <<p.Decimals + 80>> \o PushData(uint64ToBytes(p.Reward))
                \o <<p.Difficulty + 80>>,
   state |-> <<OpRETURN, OpFALSE>> \o PushData(p.Id)
               \o PushData(uint64ToBytes(supply))]

\* Decode of pow20 on such a script, from the end of pow20Prefix on: the
\* fields, then the state from two bytes behind the suffix.
PowDecode(sc) ==
  LET nil == [isNil |-> TRUE, MaxSupply |-> <<0, 0, 0, 0>>,
              Reward |-> <<0, 0, 0, 0>>, Supply |-> <<0, 0, 0, 0>>]
  IN
  At(ReadOp(sc.fields, 0), LAMBDA sym :
    IF sym.err THEN nil
    ELSE At(ReadOp(sc.fields, sym.pos), LAMBDA max :
      IF max.err \/ MakeScriptNumber(max.Data, Len(max.Data)).err THEN nil
      ELSE At(ReadOp(sc.fields, max.pos), LAMBDA dec :
        IF dec.err THEN nil
        ELSE At(ReadOp(sc.fields, dec.pos), LAMBDA rew :
          IF rew.err \/ MakeScriptNumber(rew.Data, Len(rew.Data)).err THEN nil
          ELSE At(ReadOp(sc.fields, rew.pos), LAMBDA dif :
            IF dif.err THEN nil
            ELSE At(ReadOp(sc.state, 2), LAMBDA id :
              IF id.err THEN nil
              ELSE At(ReadOp(sc.state, id.pos), LAMBDA sup :
                IF sup.err \/ MakeScriptNumber(sup.Data, Len(sup.Data)).err THEN nil
                ELSE [isNil |-> FALSE,
                      MaxSupply |-> Uint64Of(MakeScriptNumber(max.Data, Len(max.Data))),
                      Reward |-> Uint64Of(MakeScriptNumber(rew.Data, Len(rew.Data))),
                      Supply |-> Uint64Of(MakeScriptNumber(sup.Data, Len(sup.Data)))])))))))

\* ------------------------------------------------------------- state
VARIABLES
  pc,      \* where the caller is
  origin,  \* "script": the caller started from a script; "bitcom": from a Bitcom
  given,   \* the script as the caller handed it to Decode
  buf,     \* the bytes that script's backing array holds now
  b,       \* the Bitcom in the caller's hands
  built,   \* the Bitcom the caller constructed by hand
  outs,    \* the bytes each Lock call returned, as read at its return
  tx,      \* the transaction handed to DecodeFromTransaction
  acc,     \* the (address, signature, message) triples bsm.VerifyMessage accepts
  sigmas,  \* what DecodeSIGMA or DecodeFromTransaction returned
  aips,    \* what DecodeAIP returned
  bap,     \* what DecodeBAP returned
  pow,     \* the POW20 contract locked, its script and what Decode returned
  thr,     \* the locals of each thread's decoder call
  cells    \* the cells holding the scan cursors

envVars == <<origin, given, buf, b, built, outs>>
sigVars == <<tx, acc, sigmas, aips, bap, pow>>
concVars == <<thr, cells>>
vars == <<pc, envVars, sigVars, concVars, sdkAdvances>>

NoTx == [Inputs |-> <<>>, Outputs |-> <<>>]

\* The threads that call the decoders at the same time, and the locals of a
\* thread that is in no call.
Threads == {1, 2}

Idle ==
  [at |-> "idle", in |-> <<>>, dec |-> "none", pos |-> 0, pipePos |-> 0,
   bc |-> NoBitcom("none"), k |-> 0, out |-> <<>>, mixed |-> FALSE]
NoSigmas == [outcome |-> "none", sigs |-> <<>>]
NoBap == [isNil |-> TRUE, bap |-> NewBap(0)]
NoPow == [p |-> <<>>, supply |-> <<>>, script |-> <<>>, decoded |-> <<>>]

Init ==
  /\ sdkAdvances \in BOOLEAN
  /\ pc = "start"
  /\ origin = "none"
  /\ given = <<>>
  /\ buf = <<>>
  /\ b = NoBitcom("none")
  /\ built = NoBitcom("none")
  /\ outs = <<>>
  /\ tx = NoTx
  /\ acc = {}
  /\ sigmas = NoSigmas
  /\ aips = <<>>
  /\ bap = NoBap
  /\ pow = NoPow
  /\ thr = [t \in Threads |-> Idle]
  /\ cells = [t \in Threads |-> 0]

\* What a supplied script may begin with: nothing, or the marker and an
\* empty tag.
Heads == {<<>>, <<OpRETURN, OpFALSE>>}

\* The caller has a script of its own.
Supply ==
  /\ pc = "start"
  /\ \E h \in Heads, s \in SeqsUpTo(ScriptBytes, MaxLen) :
       /\ given' = h \o s
       /\ buf' = h \o s
  /\ origin' = "script"
  /\ pc' = "script"
  /\ UNCHANGED <<b, built, outs>>
  /\ UNCHANGED <<sigVars, concVars, sdkAdvances>>

\* A byte string w cut at c[1] <= c[2] <= ... into a prefix and n entries.
Cut(w, c, n) ==
  [kind |-> "ok",
   ScriptPrefix |-> Own(Sub(w, 0, c[1])),
   Protocols |-> [k \in 1..n |->
      [Protocol |-> Sub(w, c[2 * k - 1], c[2 * k]),
       Script |-> Own(Sub(w, c[2 * k], IF k = n THEN Len(w) ELSE c[2 * k + 1])),
       Pos |-> 0]]]

\* The caller fills in a Bitcom: a prefix and one or more entries.
Construct ==
  /\ pc = "start"
  /\ \E w \in SeqsUpTo(BuildBytes, MaxBuild), n \in 1..MaxEntries :
       \E c \in [1..(2 * n) -> 0..Len(w)] :
         /\ \A k \in 1..(2 * n - 1) : c[k] <= c[k + 1]
         /\ b' = Cut(w, c, n)
         /\ built' = Cut(w, c, n)
  /\ origin' = "bitcom"
  /\ pc' = "bitcom"
  /\ UNCHANGED <<given, buf, outs>>
  /\ UNCHANGED <<sigVars, concVars, sdkAdvances>>

CallDecode ==
  /\ pc = "script"
  /\ b' = Decode(buf)
  /\ pc' = IF Decode(buf).kind = "loops" THEN "hung" ELSE "decoded"
  /\ UNCHANGED <<origin, given, buf, built, outs>>
  /\ UNCHANGED <<sigVars, concVars, sdkAdvances>>

CallLock ==
  /\ pc \in {"bitcom", "decoded", "locked"}
  /\ b.kind = "ok"
  /\ Len(outs) < MaxLocks
  /\ LET r == Lock(b, buf) IN
       /\ buf' = r.buf
       /\ outs' = Append(outs, Bytes(r.s, r.buf))
  /\ pc' = "locked"
  /\ UNCHANGED <<origin, given, b, built>>
  /\ UNCHANGED <<sigVars, concVars, sdkAdvances>>

\* The caller hands the script Lock returned to Decode.
Feed ==
  /\ pc = "locked"
  /\ origin = "bitcom"
  /\ Len(outs) = 1
  /\ given' = outs[1]
  /\ buf' = outs[1]
  /\ pc' = "script"
  /\ UNCHANGED <<origin, b, built, outs>>
  /\ UNCHANGED <<sigVars, concVars, sdkAdvances>>

Next == Supply \/ Construct \/ CallDecode \/ CallLock \/ Feed

Spec == Init /\ [][Next]_vars

\* ------------------------------------------------------------- signature inputs
\* The values the signature scripts are put together from.
Addr1 == <<49, 65>>
Sig1 == <<7, 9>>
Msg1 == <<104, 105>>
Nonce1 == <<110>>
AlgoOther == <<82, 83, 65>>
OtherTag == <<84>>
\* The 65 signature bytes whose base64 form is VectorSignatureValue.
VectorSignature ==
  <<31, 207, 67, 73, 141, 118, 136, 201, 171, 23, 94, 147, 225, 160, 207,
    192, 87, 42, 174, 219, 134, 199, 42, 19, 235, 220, 147, 4, 126, 6, 169,
    124, 179, 53, 159, 143, 57, 88, 113, 87, 145, 75, 2, 241, 221, 192, 169,
    137, 208, 136, 80, 79, 252, 59, 37, 10, 83, 131, 69, 193, 103, 156, 222,
    39, 231>>

Three(x, y, z) == PushData(x) \o PushData(y) \o PushData(z)

\* SIGMA payloads: with no fourth token, with an input index, with a
\* message, with a message and a nonce, with an input index and a fifth
\* token; with the address in double quotes, or with one quote before or
\* after it; under another algorithm; with an
\* empty address or signature; the test vector; one token short.
SigmaPayloads ==
  {Three(AlgoBSM, Addr1, Sig1) \o x :
     x \in {<<>>, PushData(<<48>>), PushData(<<49>>), PushData(<<57>>),
            PushData(Msg1), PushData(Msg1) \o PushData(Nonce1),
            PushData(<<49>>) \o PushData(Nonce1)}}
  \cup {Three(AlgoBSM, <<34>> \o Addr1 \o <<34>>, Sig1),
        Three(AlgoBSM, <<34>> \o Addr1, Sig1),
        Three(AlgoBSM, Addr1 \o <<34>>, Sig1)}
  \cup {Three(AlgoECDSA, Addr1, Sig1) \o PushData(Msg1),
        Three(AlgoOther, Addr1, Sig1),
        Three(AlgoOther, Addr1, Sig1) \o PushData(Msg1),
        Three(AlgoBSM, <<>>, Sig1),
        Three(AlgoBSM, Addr1, <<>>),
        Three(AlgoBSM, VectorAddress, VectorSignature) \o PushData(VectorMessage),
        PushData(AlgoBSM) \o PushData(Addr1)}

SigmaEntries == {PushData(SIGMAPrefix) \o p : p \in SigmaPayloads}

\* Payloads of an entry of another protocol: pushes and a bare opcode; a
\* push under OP_PUSHDATA1 and a push of 68 bytes.
OtherPayloads ==
  {PushData(<<100>>), PushData(<<100>>) \o PushData(<<101, 102>>), <<81>>,
   PushData(<<100>>) \o <<81>>,
   PushData(<<100>>) \o <<OpPUSHDATA1, 1, 101>>,
   PushData(<<100>>) \o PushData([i \in 1..68 |-> 97])}

OtherEntries == {PushData(OtherTag) \o p : p \in OtherPayloads}

\* AIP payloads: without indexes, with indexes, with a token that is no
\* number, with a number after such a token, with a number of two digits,
\* and one token short.
AipPayloads ==
  {Three(AlgoBSM, Addr1, Sig1) \o x :
     x \in {<<>>, PushData(<<48>>), PushData(<<49>>),
            PushData(<<48>>) \o PushData(<<49>>), PushData(<<120>>),
            PushData(<<48>>) \o PushData(<<120>>) \o PushData(<<49>>),
            PushData(<<49, 50>>)}}
  \cup {PushData(AlgoBSM) \o PushData(Addr1)}

AipEntries == {PushData(AIPPrefix) \o p : p \in AipPayloads}

Envelope(prefix, entries) ==
  prefix \o <<OpRETURN>> \o entries[1]
    \o (IF Len(entries) > 1 THEN PushData(<<Pipe>>) \o entries[2] ELSE <<>>)

Prefixes == {<<>>, <<OpFALSE>>}

\* Output scripts carrying SIGMA entries.
SigmaScripts ==
  {Envelope(p, e) : p \in Prefixes,
     e \in {<<x>> : x \in SigmaEntries}
       \cup {<<PushData(OtherTag) \o PushData(<<100>>), x>> : x \in SigmaEntries}
       \cup {<<x, PushData(SIGMAPrefix) \o Three(AlgoBSM, Addr1, Sig1)>> :
               x \in SigmaEntries}}

\* Scripts carrying an AIP entry, alone or after an entry it signs.
AipScripts ==
  {Envelope(<<>>, e) :
     e \in {<<x>> : x \in AipEntries}
       \cup {<<o, x>> : o \in OtherEntries, x \in AipEntries}}

\* Largest number of inputs of a transaction.
MaxInputs == 2

TxInputs ==
  {[isNil |-> FALSE, hasTXID |-> TRUE, txid |-> <<17>>, vout |-> 0],
   [isNil |-> FALSE, hasTXID |-> FALSE, txid |-> <<>>, vout |-> 0],
   [isNil |-> TRUE, hasTXID |-> FALSE, txid |-> <<>>, vout |-> 0]}

\* Outputs that may come before the one carrying the signatures: none, a
\* script without a marker, an output without a script.
LeadingOutputs ==
  {<<>>, <<[hasScript |-> TRUE, script |-> <<118, 1, 20, 172>>]>>,
   <<[hasScript |-> FALSE, script |-> <<>>]>>}

Transactions ==
  {[Inputs |-> i, Outputs |-> l \o <<[hasScript |-> TRUE, script |-> s]>>] :
     i \in SeqsUpTo(TxInputs, MaxInputs), l \in LeadingOutputs, s \in SigmaScripts}

\* The triples the decoders put to bsm.VerifyMessage for the signatures
\* sgs: the message of each, and its transaction digest when t is a
\* transaction they are bound to.
QueriesOf(sgs, t, bound) ==
  {<<sgs[k].SignerAddress, GetSignatureBytes(sgs[k]).data, sgs[k].Message>> :
     k \in {j \in 1..Len(sgs) : sgs[j].Message # <<>>}}
  \cup
  {<<sgs[k].SignerAddress, GetSignatureBytes(sgs[k]).data, getMessageHash(sgs[k], t).hash>> :
     k \in {j \in 1..Len(sgs) : bound /\ ~getMessageHash(sgs[j], t).isNil}}

\* Every signature of transaction t with its transaction context.
RECURSIVE BoundSigmas(_, _)
BoundSigmas(t, o) ==
  IF o > Len(t.Outputs) THEN <<>>
  ELSE At(DecodeSIGMA(Decode(t.Outputs[o].script), t.Outputs[o].script, {}),
          LAMBDA sg : [k \in 1..Len(sg) |-> WithContext(sg[k], o - 1, k - 1)]
                        \o BoundSigmas(t, o + 1))

\* ------------------------------------------------------------- signature actions
\* The caller has a transaction; the capability accepts some of the triples
\* the decoders will put to it.
SupplyTx ==
  /\ pc = "start"
  /\ \E t \in Transactions :
       /\ tx' = t
       /\ acc' \in SUBSET QueriesOf(BoundSigmas(t, 1), t, TRUE)
  /\ pc' = "tx"
  /\ UNCHANGED <<envVars, sigmas, aips, bap, pow, concVars, sdkAdvances>>

CallDecodeFromTransaction ==
  /\ pc = "tx"
  /\ sigmas' = DecodeFromTransaction(tx, acc)
  /\ pc' = "txdone"
  /\ UNCHANGED <<envVars, tx, acc, aips, bap, pow, concVars, sdkAdvances>>

\* The caller has a script carrying signatures and decodes it.
SupplyEnvelope ==
  /\ pc = "start"
  /\ \E s \in SigmaScripts \cup AipScripts :
       /\ given' = s
       /\ buf' = s
       /\ b' = Decode(s)
       /\ acc' \in SUBSET
            (QueriesOf(DecodeSIGMA(Decode(s), s, {}), NoTx, FALSE)
               \cup {<<a.Address, a.Signature,
                       AipData(SubSeq(Decode(s).Protocols, 1, a.BitcomIndex), s, 1, 0,
                               <<OpRETURN>>, a.FieldIndexes)>> :
                       a \in {DecodeAIP(Decode(s), s, {})[k] :
                                k \in 1..Len(DecodeAIP(Decode(s), s, {}))}})
  /\ origin' = "script"
  /\ pc' = "envelope"
  /\ UNCHANGED <<built, outs, tx, sigmas, aips, bap, pow, concVars, sdkAdvances>>

\* A Bitcom filled in by hand, as the tests of DecodeAIP do: an entry of
\* another protocol, its payload complete or ending in a push with its data
\* missing, and an AIP entry;
\* or two entries of another protocol and an AIP entry.
HandBuilt ==
  {[kind |-> "ok", ScriptPrefix |-> Own(<<>>),
    Protocols |-> <<[Protocol |-> OtherTag, Script |-> Own(o), Pos |-> 0],
                    [Protocol |-> AIPPrefix, Script |-> Own(a), Pos |-> 0]>>] :
     o \in OtherPayloads \cup {<<1, 2, 3>>}, a \in AipPayloads}
  \cup
  {[kind |-> "ok", ScriptPrefix |-> Own(<<>>),
    Protocols |-> <<[Protocol |-> OtherTag, Script |-> Own(o), Pos |-> 0],
                    [Protocol |-> OtherTag, Script |-> Own(PushData(<<101>>)), Pos |-> 0],
                    [Protocol |-> AIPPrefix, Script |-> Own(a), Pos |-> 0]>>] :
     o \in {PushData(<<100>>), <<81>> \o PushData(<<100>>)}, a \in AipPayloads}

\* The caller hands the decoders a Bitcom of its own making.
SupplyBitcom ==
  /\ pc = "start"
  /\ \E bc \in HandBuilt :
       /\ b' = bc
       /\ built' = bc
       /\ acc' \in SUBSET {<<a.Address, a.Signature, a.Signed>> :
                             a \in {DecodeAIP(bc, <<>>, {})[k] :
                                      k \in 1..Len(DecodeAIP(bc, <<>>, {}))}}
  /\ origin' = "bitcom"
  /\ pc' = "envelope"
  /\ UNCHANGED <<given, buf, outs, tx, sigmas, aips, bap, pow, concVars, sdkAdvances>>

CallDecodeSIGMA ==
  /\ pc = "envelope"
  /\ sigmas' = [outcome |-> "ok", sigs |-> DecodeSIGMA(b, buf, acc)]
  /\ pc' = "sigma"
  /\ UNCHANGED <<envVars, tx, acc, aips, bap, pow, concVars, sdkAdvances>>

CallDecodeAIP ==
  /\ pc = "envelope"
  /\ aips' = DecodeAIP(b, buf, acc)
  /\ pc' = "aip"
  /\ UNCHANGED <<envVars, tx, acc, sigmas, bap, pow, concVars, sdkAdvances>>

SigNext ==
  \/ SupplyTx
  \/ CallDecodeFromTransaction
  \/ SupplyEnvelope
  \/ SupplyBitcom
  \/ CallDecodeSIGMA
  \/ CallDecodeAIP

SigSpec == Init /\ [][SigNext]_vars

\* ------------------------------------------------------------- threads
\* The decoders, called from several threads at once, each on a script of
\* its own.  A step is one turn of a loop of the code: one ReadOp of a scan,
\* or one entry of a decoder's range loop.

\* The calls the threads make: Decode on a script with a prefix and one
\* entry, with two entries, with no marker (6a being data) and with a
\* payload ending in a push whose data is missing; the signature decoders
\* each on an envelope of its protocol, and on one of another.
ConcCalls ==
  {<<"Decode", <<OpFALSE, OpRETURN, 1, 84, 1, 100>>>>,
   <<"Decode", <<OpRETURN, 1, 84, 1, 100, 1, Pipe, 1, 85, 2, 100, 101>>>>,
   <<"Decode", <<1, OpRETURN>>>>,
   <<"Decode", <<OpRETURN, 1, 84, OpPUSHDATA1, 5>>>>,
   <<"DecodeSIGMA",
     Envelope(<<>>, <<PushData(SIGMAPrefix) \o Three(AlgoBSM, Addr1, Sig1)>>)>>,
   <<"DecodeAIP",
     Envelope(<<>>, <<PushData(OtherTag) \o PushData(<<100>>),
                      PushData(AIPPrefix) \o Three(AlgoBSM, Addr1, Sig1)>>)>>,
   <<"DecodeBAP",
     Envelope(<<>>, <<PushData(BAPPrefix) \o Three(TypeID, <<107>>, Addr1)>>)>>,
   <<"DecodeBAP", <<OpRETURN, 1, 84, 1, 100>>>>}

\* One cell for the scans of every thread: a cursor at module level.
ScanCell_Module(t) == 1

\* The cell that holds the cursor i of the scans thread t runs: a local of
\* the call.
ScanCell(t) == t

\* Thread t took a step while another thread was inside a call.
Mixed(t) ==
  thr[t].mixed \/ \E u \in Threads \ {t} : thr[u].at \notin {"idle", "done"}

Step(t, new) == thr' = [thr EXCEPT ![t] = [new EXCEPT !.mixed = Mixed(t)]]

Frame == UNCHANGED <<pc, envVars, sigVars, sdkAdvances>>

\* Thread t calls a decoder on a script; Decode comes first, and its
\* findReturn starts at i = 0.
Call(t) ==
  /\ thr[t].at = "idle"
  /\ \E c \in ConcCalls :
       thr' = [thr EXCEPT ![t] = [Idle EXCEPT !.at = "findReturn", !.dec = c[1],
                                              !.in = c[2]]]
  /\ cells' = [cells EXCEPT ![ScanCell(t)] = 0]
  /\ Frame

\* One turn of findReturn's loop, and what Decode does when it returns.
StepFindReturn(t) ==
  /\ thr[t].at = "findReturn"
  /\ LET i == cells[ScanCell(t)]
         scr == thr[t].in
         r == ReadOp(scr, i)
     IN IF ~(i < Len(scr))
          THEN /\ Step(t, [thr[t] EXCEPT !.at = "decoded", !.bc = NoBitcom("nil")])
               /\ UNCHANGED cells
        ELSE IF IsReturn(r)
          THEN /\ Step(t, [thr[t] EXCEPT !.at = "head", !.pos = i + 1,
                             !.bc = [kind |-> "ok", ScriptPrefix |-> PrefixOf(i),
                                     Protocols |-> <<>>]])
               /\ UNCHANGED cells
        ELSE /\ Step(t, thr[t])
             /\ cells' = [cells EXCEPT ![ScanCell(t)] = r.pos]
  /\ Frame

\* The test of Decode's loop and the call of findPipe, which starts at
\* i = pos.
StepHead(t) ==
  /\ thr[t].at = "head"
  /\ IF ~(thr[t].pos < Len(thr[t].in))
       THEN /\ Step(t, [thr[t] EXCEPT !.at = "decoded"])
            /\ UNCHANGED cells
       ELSE /\ Step(t, [thr[t] EXCEPT !.at = "findPipe"])
            /\ cells' = [cells EXCEPT ![ScanCell(t)] = thr[t].pos]
  /\ Frame

\* One turn of findPipe's loop.
StepFindPipe(t) ==
  /\ thr[t].at = "findPipe"
  /\ LET i == cells[ScanCell(t)]
         scr == thr[t].in
         r == ReadOp(scr, i)
     IN IF ~(i < Len(scr))
          THEN /\ Step(t, [thr[t] EXCEPT !.at = "tag", !.pipePos = -1])
               /\ UNCHANGED cells
        ELSE IF IsPipe(r)
          THEN /\ Step(t, [thr[t] EXCEPT !.at = "tag", !.pipePos = i])
               /\ UNCHANGED cells
        ELSE /\ Step(t, thr[t])
             /\ cells' = [cells EXCEPT ![ScanCell(t)] = r.pos]
  /\ Frame

\* The rest of a turn of Decode's loop: the tag is read and the entry cut.
StepTag(t) ==
  /\ thr[t].at = "tag"
  /\ LET scr == thr[t].in
         pos == thr[t].pos
         pipePos == thr[t].pipePos
         r == ReadOp(scr, pos)
         with(script) ==
           [thr[t].bc EXCEPT !.Protocols =
              Append(@, [Protocol |-> r.Data, Script |-> script, Pos |-> pos])]
     IN IF r.err THEN Step(t, [thr[t] EXCEPT !.at = "decoded"])
        ELSE IF pipePos = -1
          THEN Step(t, [thr[t] EXCEPT !.at = "decoded",
                          !.bc = with(View(r.pos, Len(scr) - r.pos))])
        ELSE IF pipePos < r.pos
          THEN Step(t, [thr[t] EXCEPT !.at = "decoded", !.bc = with(Own(<<>>))])
        ELSE Step(t, [thr[t] EXCEPT !.at = "head", !.pos = AfterPipe(pipePos),
                        !.bc = with(View(r.pos, pipePos - r.pos))])
  /\ UNCHANGED cells
  /\ Frame

\* Decode has returned: the caller is done, or hands the Bitcom to the
\* decoder it wanted.
StepDecoded(t) ==
  /\ thr[t].at = "decoded"
  /\ IF thr[t].dec = "Decode"
       THEN Step(t, [thr[t] EXCEPT !.at = "done"])
       ELSE Step(t, [thr[t] EXCEPT !.at = "entries", !.k = 1,
                       !.out = IF thr[t].dec = "DecodeBAP"
                                 THEN [isNil |-> TRUE, bap |-> NewBap(0)]
                                 ELSE <<>>])
  /\ UNCHANGED cells
  /\ Frame

\* One turn of the range loop of DecodeSIGMA, DecodeAIP or DecodeBAP.
StepEntry(t) ==
  /\ thr[t].at = "entries"
  /\ LET protos == thr[t].bc.Protocols
         k == thr[t].k
     IN IF k > Len(protos) THEN Step(t, [thr[t] EXCEPT !.at = "done"])
        ELSE CASE thr[t].dec = "DecodeSIGMA" ->
                    Step(t, [thr[t] EXCEPT !.k = k + 1,
                               !.out = @ \o DecodeSIGMAFrom(SubSeq(protos, k, k),
                                                            thr[t].in, 1, acc)])
               [] thr[t].dec = "DecodeAIP" ->
                    Step(t, [thr[t] EXCEPT !.k = k + 1,
                               !.out = @ \o DecodeAIPFrom(SubSeq(protos, 1, k),
                                                          thr[t].in, k, acc)])
               [] OTHER ->
                    LET r == BapOfEntry(protos, thr[t].in, k) IN
                    IF r.found
                      THEN Step(t, [thr[t] EXCEPT !.at = "done",
                                      !.out = [isNil |-> FALSE, bap |-> r.bap]])
                      ELSE Step(t, [thr[t] EXCEPT !.k = k + 1])
  /\ UNCHANGED cells
  /\ Frame

ConcNext ==
  \E t \in Threads :
    \/ Call(t)
    \/ StepFindReturn(t)
    \/ StepHead(t)
    \/ StepFindPipe(t)
    \/ StepTag(t)
    \/ StepDecoded(t)
    \/ StepEntry(t)

ConcSpec == Init /\ [][ConcNext]_vars

\* ------------------------------------------------------------- attestations
\* The fields of attestation payloads: a key, an address, a sequence number
\* and one that is no number.
Key1 == <<107>>
Seq7 == <<55>>
SeqBad == <<49, 120>>
KindOther == <<88>>

\* The tokens after the kind: none, the key, the key and a third token.
BapBodies ==
  {<<>>, PushData(Key1), PushData(Key1) \o PushData(Seq7),
   PushData(Key1) \o PushData(SeqBad)}

\* What follows in the same payload: nothing, or a token "|" and the tokens
\* of an AIP entry, its tag first, the signature there or not.
BapTails ==
  {<<>>,
   PushData(<<Pipe>>) \o PushData(AIPPrefix) \o PushData(AlgoBSM),
   PushData(<<Pipe>>) \o PushData(AIPPrefix) \o PushData(AlgoBSM) \o PushData(Addr1),
   PushData(<<Pipe>>) \o PushData(AIPPrefix) \o Three(AlgoBSM, Addr1, Sig1)}

\* Payloads that are one token of text.
BapTexts ==
  {PushData(TypeID \o Key1 \o <<32>> \o Addr1),
   PushData(TypeATTEST \o Key1 \o <<32>> \o Seq7),
   PushData(TypeATTEST \o <<32>> \o Key1)}

BapPayloads ==
  {PushData(k) \o f \o t :
     k \in {TypeID, TypeATTEST, TypeREVOKE, TypeALIAS, KindOther},
     f \in BapBodies, t \in BapTails}
  \cup BapTexts

\* A Bitcom filled in by hand as TestCreateBAP does, the payload of its BAP
\* entry holding whatever tokens the caller pushed.
HandBuiltBap ==
  {[kind |-> "ok", ScriptPrefix |-> Own(<<>>),
    Protocols |-> <<[Protocol |-> BAPPrefix, Script |-> Own(p), Pos |-> 0]>>] :
     p \in BapPayloads}

\* Scripts as Lock writes them: a BAP entry alone, or a BAP entry, the
\* delimiter and an AIP entry.
BapScripts ==
  {Envelope(<<>>, e) :
     e \in {<<PushData(BAPPrefix) \o PushData(k) \o f>> :
              k \in {TypeID, TypeATTEST, TypeREVOKE, TypeALIAS}, f \in BapBodies}
       \cup {<<PushData(BAPPrefix) \o PushData(k) \o PushData(Key1) \o PushData(Seq7),
               PushData(AIPPrefix) \o Three(AlgoBSM, Addr1, Sig1)>> :
               k \in {TypeID, TypeATTEST, TypeREVOKE, TypeALIAS}}}

\* The caller decodes a script carrying an attestation.
SupplyAttestation ==
  /\ pc = "start"
  /\ \E s \in BapScripts :
       /\ given' = s
       /\ buf' = s
       /\ b' = Decode(s)
  /\ origin' = "script"
  /\ pc' = "attest"
  /\ UNCHANGED <<built, outs, sigVars, concVars, sdkAdvances>>

\* The caller fills in a Bitcom with a BAP entry.
SupplyAttestationBitcom ==
  /\ pc = "start"
  /\ \E bc \in HandBuiltBap :
       /\ b' = bc
       /\ built' = bc
  /\ origin' = "bitcom"
  /\ pc' = "attest"
  /\ UNCHANGED <<given, buf, outs, sigVars, concVars, sdkAdvances>>

CallDecodeBAP ==
  /\ pc = "attest"
  /\ b.kind = "ok"
  /\ bap' = DecodeBAP(b, buf)
  /\ pc' = "bap"
  /\ UNCHANGED <<envVars, tx, acc, sigmas, aips, pow, concVars, sdkAdvances>>

BapNext ==
  \/ SupplyAttestation
  \/ SupplyAttestationBitcom
  \/ CallDecodeBAP

BapSpec == Init /\ [][BapNext]_vars

\* ------------------------------------------------------------- pow20 calls
\* The uint64 values the contracts are locked with: 0, values with the top
\* bit of their first byte set or clear, and values of 2^63 and above.
Limbs == {0, 1, 127, 128, 255, 256, 32767, 32768, 65535}

Uint64s ==
  {<<0, 0, 0, x>> : x \in Limbs} \cup {<<0, 0, x, 0>> : x \in Limbs}
    \cup {<<x, 0, 0, 1>> : x \in Limbs} \cup {<<65535, 65535, 65535, 65535>>}

\* The caller locks a contract, as TestLockAndDecode_RoundTrip does.
CallPowLock ==
  /\ pc = "start"
  /\ \E m \in Uint64s, r \in {<<0, 0, 0, 0>>, <<0, 0, 0, 10>>, <<32768, 0, 0, 0>>},
        supply \in Uint64s :
       LET p == [Id |-> <<116>>, Symbol |-> <<80>>, Decimals |-> 2,
                 MaxSupply |-> m, Reward |-> r, Difficulty |-> 2]
       IN pow' = [p |-> p, supply |-> supply, script |-> PowLock(p, supply),
                  decoded |-> <<>>]
  /\ pc' = "powlocked"
  /\ UNCHANGED <<envVars, tx, acc, sigmas, aips, bap, concVars, sdkAdvances>>

\* The caller decodes the script Lock returned.
CallPowDecode ==
  /\ pc = "powlocked"
  /\ pow' = [pow EXCEPT !.decoded = PowDecode(pow.script)]
  /\ pc' = "powdecoded"
  /\ UNCHANGED <<envVars, tx, acc, sigmas, aips, bap, concVars, sdkAdvances>>

PowNext == CallPowLock \/ CallPowDecode

PowSpec == Init /\ [][PowNext]_vars

\* ------------------------------------------------------------- vocabulary
\* The script grammar, for stating the claims: the complete tokens of s from
\* pos on, each with its start (at) and end (to); complete is FALSE when the
\* walk stopped at a push whose length bytes or data are missing.
RECURSIVE TokensFrom(_, _, _)
TokensFrom(s, pos, toks) ==
  IF pos >= Len(s) THEN [toks |-> toks, complete |-> TRUE]
  ELSE LET r == ReadOp(s, pos) IN
    IF r.err THEN [toks |-> toks, complete |-> FALSE]
    ELSE TokensFrom(s, r.pos,
           Append(toks, [Op |-> r.Op, Data |-> r.Data, at |-> pos, to |-> r.pos]))

Tokens(s) == TokensFrom(s, 0, <<>>)

IsPipeToken(t) == t.Op = OpDATA1 /\ t.Data = <<Pipe>>

\* s is a sequence of complete tokens.
WellFormed(s) == Tokens(s).complete

HasToken(s, P(_)) == \E k \in 1..Len(Tokens(s).toks) : P(Tokens(s).toks[k])

IsReturnToken(t) == t.Op = OpRETURN

\* The offset of the first OP_RETURN token of s (the marker), or -1.
MarkerOf(s) ==
  LET T == Tokens(s).toks
      M == {k \in 1..Len(T) : T[k].Op = OpRETURN}
  IN IF M = {} THEN -1 ELSE T[CHOOSE k \in M : \A j \in M : k <= j].at

\* The tags and payloads of two Bitcoms agree, entry by entry.
SameEntries(x, y) ==
  /\ Len(x.Protocols) = Len(y.Protocols)
  /\ \A k \in 1..Len(x.Protocols) :
       /\ x.Protocols[k].Protocol = y.Protocols[k].Protocol
       /\ Bytes(x.Protocols[k].Script, buf) = Bytes(y.Protocols[k].Script, buf)

\* ------------------------------------------------------------- C1
\* A hand-built Bitcom the builder's output can carry: the prefix is a
\* sequence of complete tokens without OP_RETURN, no tag is the byte '|',
\* and every payload is a sequence of complete tokens none of which is the
\* one-byte push of '|'.
Carriable(x) ==
  /\ WellFormed(x.ScriptPrefix.own)
  /\ ~HasToken(x.ScriptPrefix.own, IsReturnToken)
  /\ \A k \in 1..Len(x.Protocols) :
       /\ x.Protocols[k].Protocol # <<Pipe>>
       /\ WellFormed(x.Protocols[k].Script.own)
       /\ ~HasToken(x.Protocols[k].Script.own, IsPipeToken)

\* A hand-built Bitcom whose entries the format can carry: as Carriable,
\* but the last payload may end in a push that declares more bytes than it
\* has, which section 4.1 has the scanner keep as it stands.
Representable(x) ==
  /\ WellFormed(x.ScriptPrefix.own)
  /\ ~HasToken(x.ScriptPrefix.own, IsReturnToken)
  /\ \A k \in 1..Len(x.Protocols) :
       /\ x.Protocols[k].Protocol # <<Pipe>>
       /\ ~HasToken(x.Protocols[k].Script.own, IsPipeToken)
       /\ (k < Len(x.Protocols) => WellFormed(x.Protocols[k].Script.own))

\* C1: for every prefix and every non-empty list of entries that the format
\* can carry, Decode of the script Lock returned yields the same tags and
\* payloads, in the same order and number.
C1_RoundTripRepresentable ==
  (origin = "bitcom" /\ pc \in {"decoded", "hung"} /\ Representable(built))
    => (pc = "decoded" /\ b.kind = "ok" /\ SameEntries(b, built))

\* The round trip holds when, besides, the last payload is complete too.
RoundTripCarriable ==
  (origin = "bitcom" /\ pc \in {"decoded", "hung"} /\ Carriable(built))
    => (pc = "decoded" /\ b.kind = "ok" /\ SameEntries(b, built))

\* ------------------------------------------------------------- C2
\* C2: for every byte string, Decode returns: its scan loops never iterate
\* without advancing their cursor.
C2_DecodeReturns == pc # "hung"

\* ------------------------------------------------------------- C5
\* C5: when the script has a marker, the prefix Decode returns is exactly
\* the bytes before the first OP_RETURN token, none dropped.
C5_PrefixIsAllBytesBeforeMarker ==
  (origin = "script" /\ pc = "decoded" /\ b.kind = "ok")
    => Bytes(b.ScriptPrefix, buf) = Sub(given, 0, MarkerOf(given))

\* ------------------------------------------------------------- C6
\* A script in the builder's form: complete tokens, a marker, and after it
\* one or more entries, each a minimally encoded push of a tag other than
\* '|' followed by payload tokens, with one-byte pushes of '|' between
\* entries and none at the end.
RECURSIVE EntriesFormed(_, _, _, _)
EntriesFormed(s, T, k, atTag) ==
  IF k > Len(T) THEN ~atTag
  ELSE IF atTag
    THEN /\ ~IsPipeToken(T[k])
         /\ PushData(T[k].Data) = Sub(s, T[k].at, T[k].to)
         /\ EntriesFormed(s, T, k + 1, FALSE)
    ELSE EntriesFormed(s, T, k + 1, IsPipeToken(T[k]))

BuilderForm(s) ==
  /\ WellFormed(s)
  /\ MarkerOf(s) >= 0
  /\ LET T == Tokens(s).toks
         m == CHOOSE k \in 1..Len(T) : T[k].at = MarkerOf(s)
     IN m < Len(T) /\ EntriesFormed(s, T, m + 1, TRUE)

\* C6: for every script with a marker and well-formed entries, Lock applied
\* to Decode of the script returns exactly the bytes of the script.
C6_LockInvertsDecode ==
  (origin = "script" /\ pc = "locked" /\ BuilderForm(given)) => outs[1] = given

\* ------------------------------------------------------------- C7
\* The end offset of entry k's payload in the script.
PayloadEnd(k) == b.Protocols[k].Script.off + b.Protocols[k].Script.len

\* C7: Decode ends a payload only at a standalone one-byte push of '|': a
\* payload that ends before the end of the script ends where a token of the
\* script starts, and that token is the one-byte push of '|'.  Bytes 7c or
\* 01 7c within the data of a longer push are no token, and split nothing.
C7_PayloadEndsOnlyAtPipeToken ==
  (origin = "script" /\ pc = "decoded" /\ b.kind = "ok") =>
    \A k \in 1..Len(b.Protocols) :
      (b.Protocols[k].Script.alias /\ PayloadEnd(k) < Len(given)) =>
        \E j \in 1..Len(Tokens(given).toks) :
          /\ Tokens(given).toks[j].at = PayloadEnd(k)
          /\ IsPipeToken(Tokens(given).toks[j])

\* The same for scripts that are sequences of complete tokens.
PayloadEndsAtPipeTokenWhenComplete ==
  WellFormed(given) => C7_PayloadEndsOnlyAtPipeToken

\* An entry whose payload holds the byte '|' inside the data of a push.
LongerPushHoldsPipe ==
  /\ origin = "script" /\ pc = "decoded" /\ b.kind = "ok"
  /\ \E k \in 1..Len(b.Protocols) :
       LET T == TokensFrom(given, b.Protocols[k].Script.off, <<>>).toks IN
       /\ b.Protocols[k].Script.alias
       /\ \E j \in 1..Len(T) :
            /\ T[j].to <= PayloadEnd(k)
            /\ Len(T[j].Data) > 1
            /\ \E i \in 1..Len(T[j].Data) : T[j].Data[i] = Pipe

\* ------------------------------------------------------------- C8
\* The scan of section 4.1 up to the first push with missing bytes: the
\* offset of the tag of the entry whose payload holds that push (-1 when
\* there is none, or when the push is the tag itself).
RECURSIVE TruncatedEntry(_, _, _)
TruncatedEntry(T, k, tagAt) ==
  IF k > Len(T) THEN tagAt
  ELSE IF tagAt = -1 THEN TruncatedEntry(T, k + 1, T[k].at)
  ELSE IF IsPipeToken(T[k]) THEN TruncatedEntry(T, k + 1, -1)
  ELSE TruncatedEntry(T, k + 1, tagAt)

TruncatedPayloadTag(s) ==
  IF MarkerOf(s) < 0 \/ WellFormed(s) THEN -1
  ELSE LET T == Tokens(s).toks
           m == CHOOSE k \in 1..Len(T) : T[k].at = MarkerOf(s)
       IN TruncatedEntry(T, m + 1, -1)

\* C8: when a push in an entry's payload declares more bytes than remain,
\* Decode returns, and the entry is there with every byte after its tag as
\* its payload, after the entries found before it.
C8_TruncatedPayloadKept ==
  (origin = "script" /\ pc \in {"decoded", "hung"} /\ TruncatedPayloadTag(given) >= 0)
    => /\ pc = "decoded"
       /\ b.kind = "ok"
       /\ Len(b.Protocols) > 0
       /\ LET p == b.Protocols[Len(b.Protocols)] IN
            /\ p.Pos = TruncatedPayloadTag(given)
            /\ Bytes(p.Script, buf) =
                 Sub(given, ReadOp(given, p.Pos).pos, Len(given))

\* ------------------------------------------------------------- C10
\* C10: Lock changes neither the script the Bitcom was decoded from nor the
\* Bitcom: after any Lock the script holds the bytes it was given with, and
\* a second Lock returns the bytes the first returned.
C10_LockIsPure ==
  (origin = "script" /\ pc = "locked")
    => /\ buf = given
       /\ \A i \in 1..Len(outs) : outs[i] = outs[1]

\* ------------------------------------------------------------- C11
\* What the decoder d returns for script s when it runs alone.
Alone(s, d) ==
  CASE d = "DecodeSIGMA" -> DecodeSIGMA(Decode(s), s, acc)
    [] d = "DecodeAIP" -> DecodeAIP(Decode(s), s, acc)
    [] d = "DecodeBAP" -> DecodeBAP(Decode(s), s)
    [] OTHER -> <<>>

\* C11: Decode, DecodeAIP, DecodeBAP and DecodeSIGMA called from threads
\* that run at the same time, each on an input of its own, return what they
\* return when run alone, whatever the interleaving of their steps; a call
\* that does not return alone does not return here either.
C11_ConcurrentAsAlone ==
  \A t \in Threads :
    /\ (thr[t].at = "done") =>
         /\ thr[t].bc = Decode(thr[t].in)
         /\ thr[t].out = Alone(thr[t].in, thr[t].dec)
    /\ (thr[t].at # "idle" /\ Decode(thr[t].in).kind = "loops") => thr[t].at # "done"

\* Two calls on different scripts that ran interleaved and both returned,
\* one with two entries, the other with a signature.
C11_Witness ==
  /\ \A t \in Threads : thr[t].at = "done" /\ thr[t].mixed
  /\ thr[1].in # thr[2].in
  /\ Len(thr[1].bc.Protocols) = 2
  /\ thr[2].dec = "DecodeSIGMA"
  /\ Len(thr[2].out) = 1

\* ------------------------------------------------------------- C3
\* The capability accepted the signature of sg over its message, or over
\* its transaction digest.
Accepted(sg) ==
  \/ /\ sg.Message # <<>>
     /\ ~GetSignatureBytes(sg).err
     /\ VerifyMessage(acc, sg.SignerAddress, GetSignatureBytes(sg).data, sg.Message)
  \/ /\ sg.hasTx
     /\ ~GetSignatureBytes(sg).err
     /\ ~getMessageHash(sg, tx).isNil
     /\ VerifyMessage(acc, sg.SignerAddress, GetSignatureBytes(sg).data,
                      getMessageHash(sg, tx).hash)

\* C3: a Sigma returned by DecodeSIGMA or DecodeFromTransaction is Valid
\* only if the verify capability accepted its address, signature and
\* message or transaction digest; a signature that does not match comes
\* back with Valid = FALSE.
C3_ValidOnlyIfAccepted ==
  (pc \in {"sigma", "txdone"}) =>
    \A k \in 1..Len(sigmas.sigs) : sigmas.sigs[k].Valid => Accepted(sigmas.sigs[k])

\* ------------------------------------------------------------- C4
\* The entries of the Bitcom DecodeAIP returns a record for: those tagged
\* AIP whose payload is three or more complete tokens.
AipEntriesOf(bc, scr) ==
  {i \in 1..Len(bc.Protocols) :
     /\ bc.Protocols[i].Protocol = AIPPrefix
     /\ ~DecodeScript(Bytes(bc.Protocols[i].Script, scr)).err
     /\ Len(DecodeScript(Bytes(bc.Protocols[i].Script, scr)).chunks) >= 3}

\* The buffer of section 4.2 for the record a: the entries before its own.
CanonicalBuffer(a) ==
  AipData(SubSeq(b.Protocols, 1, a.BitcomIndex), buf, 1, 0, <<OpRETURN>>,
          a.FieldIndexes)

C9_NoInputReadOutOfRange ==
  (pc = "txdone") => sigmas.outcome = "ok"

\* ------------------------------------------------------------- C12
\* The entries before the entry of record a.
Preceding(a) == SubSeq(b.Protocols, 1, a.BitcomIndex)

\* Every payload before record a's entry is a sequence of complete tokens.
PrecedingComplete(a) ==
  \A i \in 1..Len(Preceding(a)) : WellFormed(Bytes(Preceding(a)[i].Script, buf))

\* The payload tokens of the entries protos[i..], each paired with its
\* index among the payload tokens of all the entries, idx being the index of
\* the first.
RECURSIVE IndexedTokens(_, _, _)
IndexedTokens(protos, i, idx) ==
  IF i > Len(protos) THEN {}
  ELSE LET T == Tokens(Bytes(protos[i].Script, buf)).toks IN
    {<<T[k], idx + k - 1>> : k \in 1..Len(T)}
      \cup IndexedTokens(protos, i + 1, idx + Len(T))

\* A push: a direct push of 1 to 75 bytes or OP_PUSHDATA1/2/4.
IsPushToken(t) == t.Op >= OpDATA1 /\ t.Op <= OpPUSHDATA4

\* C12: with field indexes present, a push token whose index is not listed
\* adds no byte to the buffer, whatever its opcode and the length of its
\* data.
C12_UnselectedPushAddsNothing ==
  (pc = "aip") =>
    \A k \in 1..Len(aips) :
      (aips[k].FieldIndexes # <<>> /\ PrecedingComplete(aips[k])) =>
        \A x \in IndexedTokens(Preceding(aips[k]), 1, 0) :
          (IsPushToken(x[1]) /\ ~Contains(aips[k].FieldIndexes, x[2])) =>
            TokenBytes(x[1], x[2], aips[k].FieldIndexes) = <<>>

\* ------------------------------------------------------------- C13
\* An opcode that is no push and is printable.
IsPrintableOpcode(t) == t.Op > OpPUSHDATA4 /\ IsPrint(t.Op)

\* C13: a printable opcode that is no push, in the payload of an entry
\* before the AIP entry, adds exactly its own byte to the buffer, with
\* field indexes and without.
C13_PrintableOpcodeAddsItsByte ==
  (pc = "aip") =>
    \A k \in 1..Len(aips) :
      PrecedingComplete(aips[k]) =>
        \A x \in IndexedTokens(Preceding(aips[k]), 1, 0) :
          IsPrintableOpcode(x[1]) =>
            TokenBytes(x[1], x[2], aips[k].FieldIndexes) = <<x[1].Op>>

\* ------------------------------------------------------------- C14
\* The buffer of section 4.5 for the entries protos[i..]: of each its tag,
\* the bytes its tokens add and the delimiter.  A payload that is no
\* sequence of complete tokens adds no token bytes.
RECURSIVE EntriesBuffer(_, _, _, _)
EntriesBuffer(protos, i, idx, fieldIndexes) ==
  IF i > Len(protos) THEN <<>>
  ELSE LET T == Tokens(Bytes(protos[i].Script, buf))
           n == IF T.complete THEN Len(T.toks) ELSE 0
       IN protos[i].Protocol
            \o (IF T.complete THEN TapeBytes(T.toks, 1, idx, fieldIndexes) ELSE <<>>)
            \o <<Pipe>>
            \o EntriesBuffer(protos, i + 1, idx + n, fieldIndexes)

\* C14: the data put to the verify capability for an AIP record is the
\* marker byte and then, for each entry before the record's own and for no
\* other, the tag, the token bytes and one delimiter byte; an entry whose
\* payload cannot be decoded into tokens adds its delimiter all the same.
C14_BufferIsMarkerThenEntries ==
  (pc = "aip") =>
    \A k \in 1..Len(aips) :
      aips[k].Signed =
        <<OpRETURN>> \o EntriesBuffer(Preceding(aips[k]), 1, 0, aips[k].FieldIndexes)

\* The same when every payload before the AIP entry decodes into tokens.
BufferIsMarkerThenEntriesWhenComplete ==
  (pc = "aip") =>
    \A k \in 1..Len(aips) :
      PrecedingComplete(aips[k]) =>
        aips[k].Signed =
          <<OpRETURN>> \o EntriesBuffer(Preceding(aips[k]), 1, 0, aips[k].FieldIndexes)

\* ------------------------------------------------------------- C15
\* The offsets in s of the markers that introduce a SIGMA tag: an
\* OP_RETURN or a one-byte push of '|' whose next token has the data SIGMA.
SigmaMarkers(s) ==
  LET T == Tokens(s).toks IN
  {T[j].at : j \in {i \in 1..(Len(T) - 1) :
                      /\ T[i].Op = OpRETURN \/ IsPipeToken(T[i])
                      /\ T[i + 1].Data = SIGMAPrefix}}

\* The script up to marker n (from 0) of its SIGMA tags, or all of it when
\* there is no such marker.
UpToSigma(s, n) ==
  LET M == SigmaMarkers(s) IN
  IF Cardinality(M) > n
    THEN Sub(s, 0, CHOOSE m \in M : Cardinality({x \in M : x < m}) = n)
    ELSE s

\* C15: for a signature bound to a transaction, the data hash is the
\* SHA-256 of the output script cut right before occurrence instance_index
\* (from 0) of a SIGMA tag with the marker that introduces it, OP_RETURN or
\* the one-byte push of '|'; of the whole script only when there is no such
\* occurrence.
C15_DataHashCutAtOwnMarker ==
  (pc = "txdone" /\ sigmas.outcome = "ok") =>
    \A k \in 1..Len(sigmas.sigs) :
      LET sg == sigmas.sigs[k] IN
      sg.Message = <<>> =>
        getDataHash(sg, tx) =
          SomeHash(Sha256(UpToSigma(tx.Outputs[sg.TargetOutput + 1].script,
                                    sg.SigmaInstance)))

\* The same for a signature whose SIGMA tag follows OP_RETURN.
DataHashCutAtReturn ==
  (pc = "txdone" /\ sigmas.outcome = "ok") =>
    \A k \in 1..Len(sigmas.sigs) :
      LET sg == sigmas.sigs[k]
          s == tx.Outputs[sg.TargetOutput + 1].script
      IN (sg.Message = <<>> /\ sg.SigmaInstance = 0
            /\ \E m \in SigmaMarkers(s) : s[m + 1] = OpRETURN) =>
           getDataHash(sg, tx) = SomeHash(Sha256(UpToSigma(s, 0)))

\* ------------------------------------------------------------- C16
\* Valid as the check against the message leaves it.
MessageCheck(sg) == VerifyMessageSignature([sg EXCEPT !.Valid = FALSE], acc)

\* C16: a signature that carries a message is verified against the message
\* bytes alone, also by DecodeFromTransaction: its Valid is the outcome of
\* the message check, whatever the capability says of the transaction's
\* digest.
C16_MessageCheckAlone ==
  (pc \in {"sigma", "txdone"} /\ sigmas.outcome = "ok") =>
    \A k \in 1..Len(sigmas.sigs) :
      sigmas.sigs[k].Message # <<>> =>
        sigmas.sigs[k].Valid = MessageCheck(sigmas.sigs[k])

\* ------------------------------------------------------------- C17
\* C17: for a script without an OP_RETURN token, 6a within the data of a
\* push being none, Decode returns, and returns nil, not a Bitcom.
C17_NoMarkerIsNil ==
  (origin = "script" /\ pc \in {"decoded", "hung"} /\ MarkerOf(given) = -1)
    => (pc = "decoded" /\ b.kind = "nil")

\* The same for scripts that are sequences of complete tokens.
NoMarkerIsNilWhenComplete ==
  (origin = "script" /\ pc \in {"decoded", "hung"} /\ MarkerOf(given) = -1
     /\ WellFormed(given))
    => (pc = "decoded" /\ b.kind = "nil")

\* A script without marker that holds the byte 6a in the data of a push.
ReturnByteInPushData ==
  /\ origin = "script" /\ pc = "decoded" /\ b.kind = "nil"
  /\ WellFormed(given)
  /\ \E i \in 1..Len(given) : given[i] = OpRETURN

\* ------------------------------------------------------------- C18
\* The entries of section 4.2 from entry i on: of each the push of its tag
\* and its payload as it stands, with a one-byte push of '|' before the
\* next.
RECURSIVE EntriesBuilt(_, _, _)
EntriesBuilt(protos, bf, i) ==
  IF i > Len(protos) THEN <<>>
  ELSE PushData(protos[i].Protocol) \o Bytes(protos[i].Script, bf)
         \o (IF i < Len(protos) THEN <<OpDATA1, Pipe>> ELSE <<>>)
         \o EntriesBuilt(protos, bf, i + 1)

\* What section 4.2 has Lock return for the Bitcom bc, bf being the bytes
\* its slices look at.
Built(bc, bf) ==
  IF Len(bc.Protocols) = 0 THEN Bytes(bc.ScriptPrefix, bf)
  ELSE Bytes(bc.ScriptPrefix, bf) \o <<OpRETURN>> \o EntriesBuilt(bc.Protocols, bf, 1)

\* C18: Lock returns the prefix alone when there are no entries; otherwise
\* the prefix, OP_RETURN and, for each entry, the push of its tag and its
\* payload bytes as they are, with a one-byte push of '|' between entries
\* and none after the last.
C18_LockReturnsBuilt ==
  [][CallLock => outs'[Len(outs')] = Built(b, buf)]_vars

\* Lock has returned for a Bitcom of two entries with a prefix, the first
\* entry with a payload.
C18_Witness ==
  /\ pc = "locked"
  /\ Len(b.Protocols) = 2
  /\ b.ScriptPrefix.len > 0
  /\ b.Protocols[1].Script.len > 0

\* Lock has returned for a Bitcom without entries.
LockedWithoutEntries ==
  /\ pc = "locked"
  /\ Len(b.Protocols) = 0
  /\ b.ScriptPrefix.len > 0

\* ------------------------------------------------------------- C19
\* d is written as a base-10 integer: digits, after a sign or without.
IsDecimal(d) ==
  LET body == IF Len(d) > 0 /\ d[1] \in {43, 45} THEN Tail(d) ELSE d IN
  Len(body) > 0 /\ \A i \in 1..Len(body) : body[i] >= 48 /\ body[i] <= 57

RECURSIVE DecimalOf(_)
DecimalOf(d) ==
  IF Len(d) = 0 \/ d[Len(d)] \in {43, 45} THEN 0
  ELSE 10 * DecimalOf(Sub(d, 0, Len(d) - 1)) + (d[Len(d)] - 48)

DecimalValue(d) == IF d[1] = 45 THEN 0 - DecimalOf(d) ELSE DecimalOf(d)

\* The longest run of tokens of T, from the fourth on, that are written as
\* integers: its length, and the integers.
IndexRun(T) ==
  LET n == CHOOSE m \in 0..Len(T) :
             /\ \A j \in 4..(3 + m) : j <= Len(T) /\ IsDecimal(T[j].Data)
             /\ ~(3 + m + 1 <= Len(T) /\ IsDecimal(T[3 + m + 1].Data))
  IN [j \in 1..n |-> DecimalValue(T[3 + j].Data)]

\* The tokens of the payload of entry i (from 0) of the Bitcom.
PayloadTokens(i) == Tokens(Bytes(b.Protocols[i + 1].Script, buf)).toks

\* C19: the field indexes of an AIP record are the integers of the longest
\* run of tokens, from the fourth of its payload on, that are written as
\* base-10 integers, in order; the run ends at the first token that is no
\* number, the record is returned all the same, and no later token counts.
C19_FieldIndexesAreNumericRun ==
  (pc = "aip") =>
    /\ Len(aips) = Cardinality(AipEntriesOf(b, buf))
    /\ \A k \in 1..Len(aips) :
         aips[k].FieldIndexes = IndexRun(PayloadTokens(aips[k].BitcomIndex))

\* An AIP record whose payload has a number after a token that is no
\* number, and keeps the one index before it.
C19_Witness ==
  /\ pc = "aip"
  /\ \E k \in 1..Len(aips) :
       /\ Len(PayloadTokens(aips[k].BitcomIndex)) = 6
       /\ ~IsDecimal(PayloadTokens(aips[k].BitcomIndex)[5].Data)
       /\ IsDecimal(PayloadTokens(aips[k].BitcomIndex)[6].Data)
       /\ aips[k].FieldIndexes = <<0>>

\* ------------------------------------------------------------- C20
\* The entries DecodeSIGMA returns a signature for, in order: those tagged
\* SIGMA whose payload starts with three complete tokens.
SigmaEntriesOf(bc, scr) ==
  LET I == {i \in 1..Len(bc.Protocols) :
              /\ bc.Protocols[i].Protocol = SIGMAPrefix
              /\ Len(Tokens(Bytes(bc.Protocols[i].Script, scr)).toks) >= 3}
  IN [k \in 1..Cardinality(I) |->
        CHOOSE i \in I : Cardinality({j \in I : j < i}) = k - 1]

IsOneDigit(d) == Len(d) = 1 /\ d[1] >= 48 /\ d[1] <= 57

\* C20: a fourth token that is one ASCII digit sets the input index and
\* leaves message and nonce absent; any other fourth token is the message,
\* and a fifth token, if there is one, the nonce.
C20_FourthTokenIndexOrMessage ==
  (pc = "sigma") =>
    /\ Len(sigmas.sigs) = Len(SigmaEntriesOf(b, buf))
    /\ \A k \in 1..Len(sigmas.sigs) :
         LET T == PayloadTokens(SigmaEntriesOf(b, buf)[k] - 1)
             sg == sigmas.sigs[k]
         IN IF Len(T) >= 4 /\ IsOneDigit(T[4].Data)
              THEN sg.VIN = T[4].Data[1] - 48 /\ sg.Message = <<>> /\ sg.Nonce = <<>>
            ELSE IF Len(T) >= 4
              THEN /\ sg.Message = T[4].Data
                   /\ sg.Nonce = (IF Len(T) >= 5 THEN T[5].Data ELSE <<>>)
            ELSE sg.Message = <<>> /\ sg.Nonce = <<>>

\* A signature with an input index whose payload has a fifth token: no
\* nonce is read.
C20_Witness ==
  /\ pc = "sigma"
  /\ \E k \in 1..Len(sigmas.sigs) :
       /\ Len(PayloadTokens(SigmaEntriesOf(b, buf)[k] - 1)) = 5
       /\ sigmas.sigs[k].VIN = 1
       /\ sigmas.sigs[k].Nonce = <<>>

\* A signature with a message and a nonce.
MessageAndNonceRead ==
  /\ pc = "sigma"
  /\ \E k \in 1..Len(sigmas.sigs) :
       /\ Len(PayloadTokens(SigmaEntriesOf(b, buf)[k] - 1)) = 5
       /\ sigmas.sigs[k].Message = Msg1
       /\ sigmas.sigs[k].Nonce = Nonce1

\* ------------------------------------------------------------- C21
BapKinds == {TypeID, TypeATTEST, TypeREVOKE, TypeALIAS}

\* The first entry tagged BAP (from 0), the one DecodeBAP looks at first.
FirstBapEntry ==
  CHOOSE i \in 0..(Len(b.Protocols) - 1) :
    /\ b.Protocols[i + 1].Protocol = BAPPrefix
    /\ \A j \in 0..(i - 1) : b.Protocols[j + 1].Protocol # BAPPrefix

\* C21: a record DecodeBAP returns has one of the four kinds and comes from
\* a payload of three tokens or more; for any other payload DecodeBAP
\* returns nil.
C21_RecordsOfKnownKindOnly ==
  (pc = "bap" /\ ~bap.isNil) =>
    /\ bap.bap.Type \in BapKinds
    /\ Len(PayloadTokens(bap.bap.BitcomIndex)) >= 3

\* The other direction: a payload of three tokens or more whose first is one
\* of the four kinds gives a record of that kind.
KnownKindGivesRecord ==
  (pc = "bap" /\ Len(PayloadTokens(FirstBapEntry)) >= 3
     /\ PayloadTokens(FirstBapEntry)[1].Data \in BapKinds) =>
    /\ ~bap.isNil
    /\ bap.bap.BitcomIndex = FirstBapEntry
    /\ bap.bap.Type = PayloadTokens(FirstBapEntry)[1].Data

\* ------------------------------------------------------------- C22
\* The record r has its chained-signature fields from the tokens T: a token
\* "|" with four or more tokens after it, the tag of the signature entry
\* first, then algorithm, signer address and signature.
ChainedFrom(r, T) ==
  \E p \in 1..Len(T) :
    /\ T[p].Data = <<Pipe>>
    /\ Len(T) >= p + 4
    /\ r.Algorithm = T[p + 2].Data
    /\ r.SignerAddr = T[p + 3].Data
    /\ r.Signature = T[p + 4].Data

\* C22: a record with its algorithm, signer address or signature set has
\* all three, from a payload in which four or more tokens follow a "|".
C22_ChainedFieldsTogether ==
  (pc = "bap" /\ ~bap.isNil
     /\ (bap.bap.Algorithm # <<>> \/ bap.bap.SignerAddr # <<>>
           \/ bap.bap.Signature # <<>>)) =>
    ChainedFrom(bap.bap, PayloadTokens(bap.bap.BitcomIndex))

\* With four tokens after the "|" the three fields are set together.
ChainedFieldsWhenFourFollow ==
  (pc = "bap" /\ ~bap.isNil /\ bap.bap.Signature # <<>>) =>
    ChainedFrom(bap.bap, PayloadTokens(bap.bap.BitcomIndex))

\* A record with its three chained fields set.
ChainedRecord ==
  /\ pc = "bap" /\ ~bap.isNil
  /\ bap.bap.Algorithm = AlgoBSM /\ bap.bap.SignerAddr = Addr1
  /\ bap.bap.Signature = Sig1

\* ------------------------------------------------------------- C23
\* d is a decimal number: digits, one or more.
IsDecimalNumber(d) ==
  Len(d) > 0 /\ \A i \in 1..Len(d) : d[i] >= 48 /\ d[i] <= 57

SequenceRead ==
  /\ pc = "bap" /\ ~bap.isNil
  /\ bap.bap.Type = TypeATTEST /\ bap.bap.Sequence = 7

\* ------------------------------------------------------------- C24
\* C24: for a script of a BAP entry, the delimiter and an AIP entry, Decode
\* and then DecodeBAP give a record whose algorithm, signer address and
\* signature are those of the AIP entry.
C24_ChainedToFollowingEntry ==
  (pc = "bap" /\ origin = "script" /\ Len(b.Protocols) = 2
     /\ b.Protocols[1].Protocol = BAPPrefix
     /\ b.Protocols[2].Protocol = AIPPrefix
     /\ Len(PayloadTokens(0)) >= 3
     /\ Len(PayloadTokens(1)) >= 3) =>
    /\ ~bap.isNil
    /\ bap.bap.Algorithm = PayloadTokens(1)[1].Data
    /\ bap.bap.SignerAddr = PayloadTokens(1)[2].Data
    /\ bap.bap.Signature = PayloadTokens(1)[3].Data

\* What Decode and DecodeBAP give for such a script: the record of the BAP
\* entry, without chained fields, the payload handed to DecodeBAP ending
\* where the delimiter stands.
FollowingEntryNotRead ==
  (pc = "bap" /\ origin = "script" /\ Len(b.Protocols) = 2
     /\ b.Protocols[1].Protocol = BAPPrefix
     /\ b.Protocols[2].Protocol = AIPPrefix
     /\ Len(PayloadTokens(0)) >= 3) =>
    /\ ~bap.isNil
    /\ bap.bap.Algorithm = <<>>
    /\ bap.bap.SignerAddr = <<>>
    /\ bap.bap.Signature = <<>>

\* ------------------------------------------------------------- C29
\* C29: IsSignedByID is true only on a record of kind ID that carries a
\* chained signature; on ATTEST, REVOKE and ALIAS records and on records
\* without a chained signature it is false.
C29_SignedByIDOnlyOnSignedID ==
  (pc = "bap" /\ ~bap.isNil /\ bap.bap.IsSignedByID) =>
    /\ bap.bap.Type = TypeID
    /\ ChainedFrom(bap.bap, PayloadTokens(bap.bap.BitcomIndex))

\* An ID record with the flag set, and the signer as root address.
C29_Witness ==
  /\ pc = "bap" /\ ~bap.isNil
  /\ bap.bap.Type = TypeID
  /\ bap.bap.IsSignedByID
  /\ bap.bap.Signature = Sig1
  /\ bap.bap.RootAddress = Addr1

\* An ATTEST record with a chained signature: the flag is not set.
SignedAttestNotFlagged ==
  /\ pc = "bap" /\ ~bap.isNil
  /\ bap.bap.Type = TypeATTEST
  /\ bap.bap.Signature = Sig1
  /\ ~bap.bap.IsSignedByID

\* ------------------------------------------------------------- C25
\* The entry (from 1) of its output script that signature k of the list
\* returned was read from: the signatures of one output are those of its
\* SIGMA entries of three tokens or more, in order.
EntryOfSignature(k) ==
  LET sg == sigmas.sigs[k]
      s == tx.Outputs[sg.TargetOutput + 1].script
      j == Cardinality({i \in 1..k : sigmas.sigs[i].TargetOutput = sg.TargetOutput})
  IN SigmaEntriesOf(Decode(s), s)[j]

\* The number of entries tagged SIGMA before entry e of the script s.
SigmaEntriesBefore(s, e) ==
  Cardinality({i \in 1..(e - 1) : Decode(s).Protocols[i].Protocol = SIGMAPrefix})

\* C25: the instance index DecodeFromTransaction gives a signature is the
\* number of entries tagged SIGMA before its own in the output script,
\* those skipped as malformed included.
C25_InstanceCountsSigmaEntries ==
  (pc = "txdone" /\ sigmas.outcome = "ok") =>
    \A k \in 1..Len(sigmas.sigs) :
      sigmas.sigs[k].SigmaInstance =
        SigmaEntriesBefore(tx.Outputs[sigmas.sigs[k].TargetOutput + 1].script,
                           EntryOfSignature(k))

\* The same for output scripts none of whose SIGMA entries is skipped.
InstanceCountsWhenNoneSkipped ==
  (pc = "txdone" /\ sigmas.outcome = "ok") =>
    \A k \in 1..Len(sigmas.sigs) :
      LET s == tx.Outputs[sigmas.sigs[k].TargetOutput + 1].script IN
      (\A i \in 1..Len(Decode(s).Protocols) :
         Decode(s).Protocols[i].Protocol = SIGMAPrefix =>
           \E j \in 1..Len(SigmaEntriesOf(Decode(s), s)) :
             SigmaEntriesOf(Decode(s), s)[j] = i) =>
        sigmas.sigs[k].SigmaInstance = SigmaEntriesBefore(s, EntryOfSignature(k))

\* A second signature of an output, with instance index 1.
SecondInstance ==
  /\ pc = "txdone" /\ sigmas.outcome = "ok"
  /\ \E k \in 1..Len(sigmas.sigs) : sigmas.sigs[k].SigmaInstance = 1

\* ------------------------------------------------------------- C26
\* The sequences of q, one after the other.
RECURSIVE Flat(_)
Flat(q) == IF q = <<>> THEN <<>> ELSE Head(q) \o Flat(Tail(q))

\* The number of payload tokens of the entries protos[1..n].
RECURSIVE TokensUpTo(_, _)
TokensUpTo(protos, n) ==
  IF n = 0 THEN 0
  ELSE TokensUpTo(protos, n - 1) + Len(Tokens(Bytes(protos[n].Script, buf)).toks)

\* What entry i of protos adds to the buffer when token k of its payload is
\* tested under the index TokensUpTo(protos, i - 1) + k - 1: its position,
\* from 0, among the payload tokens of all the entries.
EntryUnderGlobalIndex(protos, i, fieldIndexes) ==
  LET T == Tokens(Bytes(protos[i].Script, buf)).toks IN
  protos[i].Protocol
    \o Flat([k \in 1..Len(T) |->
               TokenBytes(T[k], TokensUpTo(protos, i - 1) + k - 1, fieldIndexes)])
    \o <<Pipe>>

\* C26: the index under which a payload token is tested against the field
\* indexes is its position, from 0, among the payload tokens of all the
\* entries before the AIP entry: every token counts, push or not, the count
\* goes on from entry to entry, and tags, marker and delimiters do not count.
C26_IndexRunsAcrossEntries ==
  (pc = "aip") =>
    \A k \in 1..Len(aips) :
      PrecedingComplete(aips[k]) =>
        aips[k].Signed =
          <<OpRETURN>>
            \o Flat([i \in 1..Len(Preceding(aips[k])) |->
                       EntryUnderGlobalIndex(Preceding(aips[k]), i,
                                             aips[k].FieldIndexes)])

\* An AIP record with the field index 1 after two entries of one token
\* each: the token of the second entry is signed, that of the first is not.
C26_Witness ==
  /\ pc = "aip"
  /\ \E k \in 1..Len(aips) :
       /\ aips[k].BitcomIndex = 2
       /\ aips[k].FieldIndexes = <<1>>
       /\ Len(PayloadTokens(0)) = 1
       /\ aips[k].Signed =
            <<OpRETURN>> \o OtherTag \o <<Pipe>> \o OtherTag \o <<101, Pipe>>

\* The same after a first entry of an opcode and a push: the push has the
\* index 1.
OpcodeCounted ==
  /\ pc = "aip"
  /\ \E k \in 1..Len(aips) :
       /\ aips[k].BitcomIndex = 2
       /\ aips[k].FieldIndexes = <<1>>
       /\ Len(PayloadTokens(0)) = 2
       /\ aips[k].Signed =
            <<OpRETURN>> \o OtherTag \o <<81, 100, Pipe>> \o OtherTag \o <<Pipe>>

\* ------------------------------------------------------------- C27
\* Entry k of the Bitcom stands at a token of the script: its Pos is the
\* offset of a token, the data of that token is its tag, and its payload is
\* the bytes right after that token.
EntryAtTagToken(k) ==
  \E j \in 1..Len(Tokens(given).toks) :
    LET t == Tokens(given).toks[j] IN
    /\ t.at = b.Protocols[k].Pos
    /\ t.Data = b.Protocols[k].Protocol
    /\ Bytes(b.Protocols[k].Script, buf)
         = Sub(given, t.to, t.to + b.Protocols[k].Script.len)
    /\ b.Protocols[k].Script.len > 0 => b.Protocols[k].Script.off = t.to

\* C27: the entries Decode returns are in the order of the script: each Pos
\* is the offset of the entry's tag token in the script, the offsets grow
\* with the index of the entry, and each payload starts right after the tag
\* token at that offset.
C27_EntriesInScriptOrder ==
  (origin = "script" /\ pc = "decoded" /\ b.kind = "ok") =>
    /\ \A k \in 1..Len(b.Protocols) : EntryAtTagToken(k)
    /\ \A k \in 1..(Len(b.Protocols) - 1) :
         b.Protocols[k].Pos < b.Protocols[k + 1].Pos

\* The same for scripts that are sequences of complete tokens.
EntriesInScriptOrderWhenComplete ==
  WellFormed(given) => C27_EntriesInScriptOrder

\* Decode has returned two entries, the first with a payload.
C27_Witness ==
  /\ origin = "script" /\ pc = "decoded" /\ b.kind = "ok"
  /\ Len(b.Protocols) = 2
  /\ b.Protocols[1].Script.len > 0
  /\ b.Protocols[2].Pos > b.Protocols[1].Pos

\* ------------------------------------------------------------- C28
\* The address token a is wrapped in double quotes.
IsQuoted(a) == Len(a) >= 2 /\ a[1] = 34 /\ a[Len(a)] = 34

\* C28: the signer address DecodeSIGMA returns is the address token without
\* its two double quotes when the token is wrapped in double quotes, and
\* the token as it is in every other case.
C28_AddressUnquotedOrUnchanged ==
  (pc = "sigma") =>
    \A k \in 1..Len(sigmas.sigs) :
      LET a == PayloadTokens(SigmaEntriesOf(b, buf)[k] - 1)[2].Data IN
      sigmas.sigs[k].SignerAddress =
        (IF IsQuoted(a) THEN Sub(a, 1, Len(a) - 1) ELSE a)

\* The same for address tokens that do not begin with a double quote or
\* are wrapped in two.
AddressUnquotedWhenWrapped ==
  (pc = "sigma") =>
    \A k \in 1..Len(sigmas.sigs) :
      LET a == PayloadTokens(SigmaEntriesOf(b, buf)[k] - 1)[2].Data IN
      (IsQuoted(a) \/ Len(a) = 0 \/ a[1] # 34) =>
        sigmas.sigs[k].SignerAddress =
          (IF IsQuoted(a) THEN Sub(a, 1, Len(a) - 1) ELSE a)

\* A signature whose address token was wrapped in double quotes.
QuotedAddressRead ==
  /\ pc = "sigma"
  /\ \E k \in 1..Len(sigmas.sigs) :
       /\ PayloadTokens(SigmaEntriesOf(b, buf)[k] - 1)[2].Data = <<34>> \o Addr1 \o <<34>>
       /\ sigmas.sigs[k].SignerAddress = Addr1


\* ---------------------------------------------------------------------
\* C30: for every uint64, the bytes uint64ToBytes returns are at most 8
\* long and read back, as a script number in its shortest form, as that
\* value, so that Decode of the locked script recovers MaxSupply, Reward
\* and supply, 0 and the values of 2^63 and above included.
Zero64 == <<0, 0, 0, 0>>

ReadsBackAs(bytes, v) ==
  LET num == MakeScriptNumber(bytes, Len(bytes)) IN
  ~num.err /\ ~num.neg /\ Uint64Of(num) = v

C30_Uint64RoundTrip ==
  pc = "powdecoded" =>
    /\ \A v \in {pow.p.MaxSupply, pow.p.Reward, pow.supply} :
         Len(uint64ToBytes(v)) <= 8 /\ ReadsBackAs(uint64ToBytes(v), v)
    /\ ~pow.decoded.isNil
    /\ pow.decoded.MaxSupply = pow.p.MaxSupply
    /\ pow.decoded.Reward = pow.p.Reward
    /\ pow.decoded.Supply = pow.supply

\* What does hold: the bytes are never more than 8, and the values from 1
\* to 2^63 - 1 are recovered.
BelowSignBit(v) == v # Zero64 /\ v[1] < 32768

Uint64RoundTripBelowSignBit ==
  pc = "powdecoded" =>
    /\ \A v \in {pow.p.MaxSupply, pow.p.Reward, pow.supply} :
         /\ Len(uint64ToBytes(v)) <= 8
         /\ BelowSignBit(v) => ReadsBackAs(uint64ToBytes(v), v)
    /\ (\A v \in {pow.p.MaxSupply, pow.p.Reward, pow.supply} : BelowSignBit(v))
         => /\ ~pow.decoded.isNil
            /\ pow.decoded.MaxSupply = pow.p.MaxSupply
            /\ pow.decoded.Reward = pow.p.Reward
            /\ pow.decoded.Supply = pow.supply

\* A contract locked with a supply of 0 is not decoded at all.
ZeroSupplyNotDecoded ==
  pc = "powdecoded" /\ pow.supply = Zero64 => pow.decoded.isNil

\* A value of 2^63 and above comes back without its top bit.
TopBitLost ==
  pc = "powdecoded" /\ ~pow.decoded.isNil /\ pow.p.MaxSupply[1] >= 32768 =>
    pow.decoded.MaxSupply = [pow.p.MaxSupply EXCEPT ![1] = @ - 32768]

RoundTripDone ==
  /\ pc = "powdecoded"
  /\ pow.p.MaxSupply = <<0, 0, 0, 128>>
  /\ pow.supply = <<32767, 0, 0, 1>>
  /\ pow.p.Reward = <<0, 0, 0, 10>>
  /\ pow.decoded.MaxSupply = <<0, 0, 0, 128>>
  /\ pow.decoded.Supply = <<32767, 0, 0, 1>>

TopBitLostDone ==
  /\ pc = "powdecoded"
  /\ pow.p.MaxSupply = <<65535, 65535, 65535, 65535>>
  /\ ~pow.decoded.isNil
  /\ pow.decoded.MaxSupply = <<32767, 65535, 65535, 65535>>

=============================================================================
